---- MODULE Spec2Model ----
(***************************************************************************)
(* Model of the wayback-rpki temporal prefix index (src/src/roas_trie.rs), *)
(* its serving layer (src/src/api.rs), the crawler (src/src/lib.rs) and    *)
(* the refresh loop of serve mode (src/src/bin/main.rs).                   *)
(*                                                                         *)
(* These specifications share this module:                                 *)
(*   EntrySpec    one RoasTrieEntry under new / push_date / full_compress  *)
(*   Spec         one RoasTrie under process_entries / compress_dates      *)
(*   IndexSpec    one RoasTrie under ingest, compress, fill_gaps, dump/load*)
(*   IngestSpec   the ingest engine on records with several keys           *)
(*   SearchSpec   one RoasTrie under ingest and compress, for search       *)
(*   ApiSpec      one /search request of the serving layer                 *)
(*   ServeSpec    serve mode: request handlers, refresh loop, lock, disk   *)
(*   RebuildSpec  the Rebuild command: parallel workers, single writer     *)
(*   RebuildLiveSpec  RebuildSpec with its threads scheduled fairly        *)
(*   CrawlSpec    one call of crawl_tal_after (src/src/lib.rs)             *)
(*   ModesSpec    one batch ingested incrementally and in bulk             *)
(*   GapsSpec     one RoasTrie over the days of February 2022's gaps       *)
(*   RefreshSpec  the refresh loop over the files of several TALs          *)
(* Each leaves the variables of the others at their initial values.        *)
(***************************************************************************)
EXTENDS Integers, Sequences, FiniteSets, TLC

VARIABLES
    \* ---- EntrySpec: a single RoasTrieEntry
    entry,          \* the entry (fields of struct RoasTrieEntry)
    e_before,       \* the entry as it was before the last call
    e_last,         \* the last call made on it
    e_ops,          \* number of calls made so far
    \* ---- Spec: a RoasTrie
    trie,           \* RoasTrie.trie: prefix -> ((max_len, origin) -> entry)
    latest_date,    \* RoasTrie.latest_date
    crashed,        \* TRUE once a call on the index has panicked
    last,           \* the last call made on the index
    ops,            \* number of calls made so far
    \* ---- ServeSpec: serve mode
    live,           \* the RoasTrie behind the RwLock (trie_lock)
    lock_readers,   \* request handlers holding the read side of the RwLock
    r_read,         \* TRUE while the refresh loop's read guard (read_lock) lives
    lock_writer,    \* TRUE while the write side of the RwLock is held
    rpc,            \* where the refresh loop stands
    backup,         \* the refresh loop's working copy (`backup`)
    todo,           \* days of the snapshot files the running update has left
    dumped,         \* outcome of this cycle's dump: "none", "ok", "err"
    avail,          \* the newest day published upstream
    disk_primary,   \* the file at `path`
    disk_backup,    \* the file at the auxiliary backup destination
    hpc,            \* where each request handler stands
    h_latest,       \* latest_ts each handler read
    h_trie,         \* trie contents each handler searched
    h_resp,         \* what each handler's last request was answered with
    published,      \* every index that was loaded or completed by an update
    \* ---- RebuildSpec: the Rebuild command (its writer's RoasTrie is `trie`)
    all_files,      \* days of the snapshot files no worker has parsed yet
    receiver_entries, \* batches in the channel from the workers to the writer
    rb_applied,     \* days of the batches the writer has applied, in that order
    rb_failed,      \* days of the files whose download or parse failed
    pb_pending,     \* days whose batch a worker has sent, progress not yet sent
    receiver_pb,    \* progress messages in the channel to the progress thread
    pb_log,         \* days the progress thread has written to its log
    rb_pc,          \* where the writer thread, then the joining main thread, stands
    rb_out,         \* the file the writer dumps to
    \* ---- ApiSpec: one /search request against a RoasTrie (`trie`)
    api_query,      \* the query of the last request (RoasSearchQuery)
    api_resp,       \* what the handler answered
    \* ---- CrawlSpec: one call of crawl_tal_after
    cr_listed,      \* the days that have a snapshot file in the upstream listing
    cr_after,       \* the `after` argument
    cr_out,         \* the Vec<RoaFile> returned, as file dates
    \* ---- ModesSpec: one batch ingested in both modes
    in_batch,       \* the records, in the order the bulk ingest gets them
    inc_index,      \* the index built incrementally
    inc_done,       \* the incremental ingest has run
    bulk_index,     \* the index built in bulk mode
    bulk_pc,        \* "start", "ingested", "compressed"
    \* ---- RefreshSpec: the refresh loop over the files of several TALs
    up_files,       \* the <<tal, day>> snapshot files published upstream
    rf_live,        \* the live index
    rf_backup,      \* the working copy of the cycle
    rf_todo,        \* the files the crawl listed, not yet applied
    rf_pc           \* where the refresh loop is

entryVars == <<entry, e_before, e_last, e_ops>>
indexVars == <<trie, latest_date, crashed, last, ops>>
serveVars ==
    <<live, lock_readers, r_read, lock_writer, rpc, backup, todo, dumped, avail,
      disk_primary, disk_backup, hpc, h_latest, h_trie, h_resp, published>>
rebuildVars == <<all_files, receiver_entries, rb_applied, rb_failed, pb_pending,
                 receiver_pb, pb_log, rb_pc, rb_out>>
apiVars == <<api_query, api_resp>>
crawlVars == <<cr_listed, cr_after, cr_out>>
modesVars == <<in_batch, inc_index, inc_done, bulk_index, bulk_pc>>
refreshVars == <<up_files, rf_live, rf_backup, rf_todo, rf_pc>>
vars ==
    <<entryVars, indexVars, serveVars, rebuildVars, apiVars, crawlVars,
      modesVars, refreshVars>>

----------------------------------------------------------------------------
\* Bounds of the model.

\* Calendar days are 0..MaxDay (day 0 is the first day of the window).
MaxDay == 3
\* Calls made on the single entry of EntrySpec.
MaxEntryOps == 4
\* Calls made on the index of Spec.
MaxOps == 2
\* Calendar days of the records fed to the index of Spec are 0..MaxIndexDay.
MaxIndexDay == 2
\* In ServeSpec day 0 is in the index at start-up and days 1..MaxServeDay are
\* published upstream while the server runs.
MaxServeDay == 2
\* Request handlers that may run at once in ServeSpec.
NumHandlers == 2

\* Calls made on the index of IndexSpec, and the calendar days 0..MaxFixDay of
\* the records fed to it.
MaxFixOps == 4
MaxFixDay == 3

\* Calls made on the index of SearchSpec, and the calendar days
\* 0..MaxSearchDay of the records fed to it.
MaxSearchOps == 2
MaxSearchDay == 2

\* The Rebuild command of RebuildSpec crawls one snapshot file for each of the
\* calendar days 0..MaxRebuildDay.
MaxRebuildDay == 2
\* Capacities the model gives the two bounded channels of the Rebuild command
\* (sync_channel(2000) for the batches, sync_channel(20) for the progress
\* messages), small enough for the senders to find them full.
MaxQueuedBatches == 1
MaxQueuedProgress == 1

\* IngestSpec makes at most MaxIngestOps calls on its index.
MaxIngestOps == 4

\* ApiSpec builds its index from records of the days 0..MaxApiDay with at
\* most MaxApiOps calls, and gives `usize` UsizeBits bits.
MaxApiOps == 3
MaxApiDay == 1
UsizeBits == 16

Days == 0..MaxDay
IndexDays == 0..MaxIndexDay
Handlers == 1..NumHandlers
FixDays == 0..MaxFixDay
SearchDays == 0..MaxSearchDay
RebuildDays == 0..MaxRebuildDay
ApiDays == 0..MaxApiDay

----------------------------------------------------------------------------
\* Timestamps.

\* chrono::Duration::days(1).num_seconds(); ONE_DAY_SECONDS in fill_gaps.
ONE_DAY_SECONDS == 86400

\* date.and_time(00:00:00).and_utc().timestamp(): UTC midnight of a calendar
\* day.  Day 0 of the window is 2022-01-01, 18993 days after 1970-01-01.
DateTs(day) == (18993 + day) * ONE_DAY_SECONDS

\* DateTime::from_timestamp(ts, 0).naive_utc().date(): the calendar day a
\* timestamp falls in.
TsDate(ts) == (ts \div ONE_DAY_SECONDS) - 18993

----------------------------------------------------------------------------
\* RoasTrieEntry.

\* RoasTrieEntry::new
NewEntry(date_ts, max_len, origin, bootstrap) ==
    IF bootstrap
    THEN [max_len |-> max_len, origin |-> origin,
          dates |-> {date_ts}, dates_compressed |-> <<>>]
    ELSE [max_len |-> max_len, origin |-> origin,
          dates |-> {}, dates_compressed |-> << <<date_ts, date_ts>> >>]

\* self.dates.iter().copied().collect::<Vec<i64>>(): the set in some order.
RECURSIVE SetToSeq(_)
SetToSeq(S) ==
    IF S = {} THEN <<>>
    ELSE LET x == CHOOSE y \in S : TRUE
         IN <<x>> \o SetToSeq(S \ {x})

\* ExplodeRun with the last day of the run left out (date < end).
RECURSIVE ExplodeRunExclusive(_, _)
ExplodeRunExclusive(date, end) ==
    IF date < end
    THEN <<date>> \o ExplodeRunExclusive(date + ONE_DAY_SECONDS, end)
    ELSE <<>>

\* The inner while loop of full_compress: every day of one run.
RECURSIVE ExplodeRun(_, _)
ExplodeRun(date, end) ==
    IF date <= end
    THEN <<date>> \o ExplodeRun(date + ONE_DAY_SECONDS, end)
    ELSE <<>>

\* The for loop over dates_compressed in full_compress.
RECURSIVE ExplodeRuns(_)
ExplodeRuns(runs) ==
    IF runs = <<>> THEN <<>>
    ELSE ExplodeRun(Head(runs)[1], Head(runs)[2]) \o ExplodeRuns(Tail(runs))

RECURSIVE InsertSorted(_, _)
InsertSorted(x, s) ==
    IF s = <<>> THEN <<x>>
    ELSE IF x <= Head(s) THEN <<x>> \o s
    ELSE <<Head(s)>> \o InsertSorted(x, Tail(s))

\* dates.sort(): ascending, equal elements kept.
RECURSIVE SortDates(_)
SortDates(s) ==
    IF s = <<>> THEN <<>>
    ELSE InsertSorted(Head(s), SortDates(Tail(s)))

\* The compress loop of full_compress, from index i of the sorted dates.
RECURSIVE CompressLoop(_, _, _, _, _)
CompressLoop(dates, i, start, end, compressed) ==
    IF i > Len(dates)
    THEN Append(compressed, <<start, end>>)
    ELSE IF dates[i] = end + ONE_DAY_SECONDS
         THEN CompressLoop(dates, i + 1, start, dates[i], compressed)
         ELSE CompressLoop(dates, i + 1, dates[i], dates[i],
                           Append(compressed, <<start, end>>))

\* The Vec full_compress collects: the loose dates, then every day of every run.
CollectDates(e) == SetToSeq(e.dates) \o ExplodeRuns(e.dates_compressed)

\* dates[0] of an empty Vec: full_compress panics.
FullCompressPanics(e) == CollectDates(e) = <<>>

\* full_compress that leaves the loose set as it found it.
FullCompressKeepsLoose(e) ==
    LET dates == SortDates(CollectDates(e))
    IN [e EXCEPT !.dates_compressed =
                     CompressLoop(dates, 2, dates[1], dates[1], <<>>)]

\* RoasTrieEntry::full_compress
FullCompress(e) ==
    LET dates == SortDates(CollectDates(e))
    IN [e EXCEPT !.dates = {},
                 !.dates_compressed =
                     CompressLoop(dates, 2, dates[1], dates[1], <<>>)]

\* push_date whose incremental mode appends a run for every date that does not
\* extend the last run, a date in the past or already covered included.
PushDateNoSkip(e, date_ts, bootstrap) ==
    IF bootstrap
    THEN [e EXCEPT !.dates = @ \cup {date_ts}]
    ELSE IF e.dates_compressed = <<>>
    THEN [e EXCEPT !.dates_compressed = << <<date_ts, date_ts>> >>]
    ELSE LET n == Len(e.dates_compressed)
             next_day_ts == e.dates_compressed[n][2] + ONE_DAY_SECONDS
         IN IF date_ts = next_day_ts
            THEN [e EXCEPT !.dates_compressed[n][2] = date_ts]
            ELSE [e EXCEPT !.dates_compressed =
                               Append(@, <<date_ts, date_ts>>)]

\* push_date whose incremental mode stretches the last run up to any later
\* date, a date beyond the next day included.
PushDateExtendAny(e, date_ts, bootstrap) ==
    IF bootstrap
    THEN [e EXCEPT !.dates = @ \cup {date_ts}]
    ELSE IF e.dates_compressed = <<>>
    THEN [e EXCEPT !.dates_compressed = << <<date_ts, date_ts>> >>]
    ELSE LET n == Len(e.dates_compressed)
             next_day_ts == e.dates_compressed[n][2] + ONE_DAY_SECONDS
         IN IF date_ts >= next_day_ts
            THEN [e EXCEPT !.dates_compressed[n][2] = date_ts]
            ELSE e

\* push_date whose incremental mode opens a new run for the next day instead
\* of stretching the last run.
PushDateAppendAdjacent(e, date_ts, bootstrap) ==
    IF bootstrap
    THEN [e EXCEPT !.dates = @ \cup {date_ts}]
    ELSE IF e.dates_compressed = <<>>
    THEN [e EXCEPT !.dates_compressed = << <<date_ts, date_ts>> >>]
    ELSE LET n == Len(e.dates_compressed)
             next_day_ts == e.dates_compressed[n][2] + ONE_DAY_SECONDS
         IN IF date_ts >= next_day_ts
            THEN [e EXCEPT !.dates_compressed =
                               Append(@, <<date_ts, date_ts>>)]
            ELSE e

\* push_date that takes the run-tail path in bulk mode too.
PushDateRunsInBulk(e, date_ts, bootstrap) ==
    IF e.dates_compressed = <<>>
    THEN [e EXCEPT !.dates_compressed = << <<date_ts, date_ts>> >>]
    ELSE LET n == Len(e.dates_compressed)
             next_day_ts == e.dates_compressed[n][2] + ONE_DAY_SECONDS
         IN IF date_ts = next_day_ts
            THEN [e EXCEPT !.dates_compressed[n][2] = date_ts]
            ELSE IF date_ts > next_day_ts
            THEN [e EXCEPT !.dates_compressed =
                               Append(@, <<date_ts, date_ts>>)]
            ELSE e

\* RoasTrieEntry::push_date
PushDate(e, date_ts, bootstrap) ==
    IF bootstrap
    THEN [e EXCEPT !.dates = @ \cup {date_ts}]
    ELSE IF e.dates_compressed = <<>>
    THEN [e EXCEPT !.dates_compressed = << <<date_ts, date_ts>> >>]
    ELSE LET n == Len(e.dates_compressed)
             next_day_ts == e.dates_compressed[n][2] + ONE_DAY_SECONDS
         IN IF date_ts = next_day_ts
            THEN [e EXCEPT !.dates_compressed[n][2] = date_ts]
            ELSE IF date_ts > next_day_ts
            THEN [e EXCEPT !.dates_compressed =
                               Append(@, <<date_ts, date_ts>>)]
            ELSE e

\* contains_date that looks at the runs only.
ContainsDateRunsOnly(e, date_ts) ==
    \E i \in 1..Len(e.dates_compressed) :
        /\ date_ts >= e.dates_compressed[i][1]
        /\ date_ts <= e.dates_compressed[i][2]

\* RoasTrieEntry::contains_date
ContainsDate(e, date_ts) ==
    \/ date_ts \in e.dates
    \/ \E i \in 1..Len(e.dates_compressed) :
           /\ date_ts >= e.dates_compressed[i][1]
           /\ date_ts <= e.dates_compressed[i][2]

----------------------------------------------------------------------------
\* RoasTrie.

\* An IP network: its family and the bits of its address up to the prefix
\* length (host bits are not kept, so equal networks are equal values).
Net(fam, bits) == [fam |-> fam, bits |-> bits]

\* IpNet::prefix_len
PrefixLen(p) == Len(p.bits)

\* q equals p or is a supernet of p; never across families.
Covers(q, p) ==
    /\ q.fam = p.fam
    /\ Len(q.bits) <= Len(p.bits)
    /\ \A i \in 1..Len(q.bits) : q.bits[i] = p.bits[i]

\* Networks ROA records are published for, and networks queries ask about.
RecordPrefixes == {Net(4, <<>>), Net(4, <<0>>), Net(6, <<>>)}
QueryPrefixes ==
    RecordPrefixes \cup {Net(4, <<0, 1>>), Net(4, <<1>>), Net(6, <<1>>)}
\* max_len values of records (i32) and origin ASNs of records.
RecordMaxLens == {1, 2}
RecordOrigins == {1}

\* RoaEntry, the fields process_entries reads.
Records ==
    [prefix : RecordPrefixes, max_len : RecordMaxLens,
     asn : RecordOrigins, date : IndexDays]

\* `entry.max_len as u8`: the low eight bits of the i32.
AsU8(n) == n % 256

\* IpnetTrie::new
EmptyTrie == [p \in {} |-> {}]

\* RoasTrie::new
NewIndex == [trie |-> EmptyTrie, latest_date |-> 0]

\* f with x mapped to v (HashMap::insert, IpnetTrie::insert).
MapPut(f, x, v) ==
    [y \in DOMAIN f \cup {x} |-> IF y = x THEN v ELSE f[y]]

\* RoasTrieEntry::convert_to_hash_map
ConvertToHashMap(e) == MapPut(EmptyTrie, <<e.max_len, e.origin>>, e)

\* IpnetTrie::matches: the stored networks equal to or covering p.
Matches(t, p) == {q \in DOMAIN t : Covers(q, p)}

\* ProcessEntry that raises latest_date only when the record's network is new
\* to the trie.
ProcessEntryStaleLatest(idx, r, bootstrap) ==
    LET prefix == r.prefix
        max_len == AsU8(r.max_len)
        origin == r.asn
        date_ts == DateTs(r.date)
        key == <<max_len, origin>>
        t == IF prefix \in DOMAIN idx.trie
             THEN LET v == idx.trie[prefix]
                  IN MapPut(idx.trie, prefix,
                         IF key \in DOMAIN v
                         THEN MapPut(v, key, PushDate(v[key], date_ts, bootstrap))
                         ELSE MapPut(v, key,
                                  NewEntry(date_ts, max_len, origin, bootstrap)))
             ELSE MapPut(idx.trie, prefix,
                      ConvertToHashMap(
                          NewEntry(date_ts, max_len, origin, bootstrap)))
    IN [trie |-> t,
        latest_date |-> IF date_ts > idx.latest_date
                           /\ prefix \notin DOMAIN idx.trie
                        THEN date_ts ELSE idx.latest_date]

\* ProcessEntry that hands the record's max_len to the new entry as it came,
\* not cut to a u8.
ProcessEntryWideMaxLen(idx, r, bootstrap) ==
    LET prefix == r.prefix
        max_len == AsU8(r.max_len)
        origin == r.asn
        date_ts == DateTs(r.date)
        key == <<max_len, origin>>
        t == IF prefix \in DOMAIN idx.trie
             THEN LET v == idx.trie[prefix]
                  IN MapPut(idx.trie, prefix,
                         IF key \in DOMAIN v
                         THEN MapPut(v, key, PushDate(v[key], date_ts, bootstrap))
                         ELSE MapPut(v, key,
                                  NewEntry(date_ts, r.max_len, origin,
                                           bootstrap)))
             ELSE MapPut(idx.trie, prefix,
                      MapPut(EmptyTrie, key,
                          NewEntry(date_ts, r.max_len, origin, bootstrap)))
    IN [trie |-> t,
        latest_date |-> IF date_ts > idx.latest_date
                        THEN date_ts ELSE idx.latest_date]

\* The body of the for loop of process_entries, for one record.
ProcessEntry(idx, r, bootstrap) ==
    LET prefix == r.prefix
        max_len == AsU8(r.max_len)
        origin == r.asn
        date_ts == DateTs(r.date)
        key == <<max_len, origin>>
        t == IF prefix \in DOMAIN idx.trie
             THEN LET v == idx.trie[prefix]
                  IN MapPut(idx.trie, prefix,
                         IF key \in DOMAIN v
                         THEN MapPut(v, key, PushDate(v[key], date_ts, bootstrap))
                         ELSE MapPut(v, key,
                                  NewEntry(date_ts, max_len, origin, bootstrap)))
             ELSE MapPut(idx.trie, prefix,
                      ConvertToHashMap(
                          NewEntry(date_ts, max_len, origin, bootstrap)))
    IN [trie |-> t,
        latest_date |-> IF date_ts > idx.latest_date
                        THEN date_ts ELSE idx.latest_date]

\* RoasTrie::process_entries
RECURSIVE ProcessEntries(_, _, _)
ProcessEntries(idx, entries, bootstrap) ==
    IF entries = <<>> THEN idx
    ELSE ProcessEntries(ProcessEntry(idx, Head(entries), bootstrap),
                        Tail(entries), bootstrap)

\* RoasTrie::compress_dates panics when an entry's full_compress does.
CompressDatesPanics(t) ==
    \E p \in DOMAIN t : \E k \in DOMAIN t[p] : FullCompressPanics(t[p][k])

\* compress_dates that empties the loose sets without folding them into the
\* runs.
CompressDatesDropsLoose(t) ==
    [p \in DOMAIN t |-> [k \in DOMAIN t[p] |-> [t[p][k] EXCEPT !.dates = {}]]]

\* RoasTrie::compress_dates
CompressDatesOf(t) ==
    [p \in DOMAIN t |-> [k \in DOMAIN t[p] |-> FullCompress(t[p][k])]]

\* The outer loop of validate over the matched networks, most general first;
\* `Valid` ends it at once, every other matched network leaves `Invalid`.
RECURSIVE ValidateLoop(_, _, _, _, _, _)
ValidateLoop(t, matched, prefix, origin, date_ts, is_valid) ==
    IF matched = {} THEN is_valid
    ELSE LET q == CHOOSE x \in matched :
                      \A y \in matched : PrefixLen(x) <= PrefixLen(y)
         IN IF \E k \in DOMAIN t[q] :
                   /\ t[q][k].origin = origin
                   /\ t[q][k].max_len >= PrefixLen(prefix)
                   /\ ContainsDate(t[q][k], date_ts)
            THEN "Valid"
            ELSE ValidateLoop(t, matched \ {q}, prefix, origin, date_ts,
                              "Invalid")

\* validate whose verdict starts at `Invalid`.
ValidateFromInvalid(t, prefix, origin, date_ts) ==
    ValidateLoop(t, Matches(t, prefix), prefix, origin, date_ts, "Invalid")

\* RoasTrie::validate
Validate(t, prefix, origin, date_ts) ==
    ValidateLoop(t, Matches(t, prefix), prefix, origin, date_ts, "Unknown")

\* Option<T>: None, and Some(x).
None == <<>>
Some(x) == <<x>>

\* KNOWN_GAPS_STR, the 25 rows in the order of the table, each as (first day,
\* last day) of the gap counted in days from 2022-01-01: ("2022-01-03",
\* "2022-01-03") is <<2, 2>>, ("2022-02-02", "2022-02-02") is <<32, 32>>.
KNOWN_GAPS_STR ==
    << <<-1100, -1095>>, <<-802, -802>>, <<-769, -769>>, <<-516, -516>>,
       <<-362, -362>>, <<-170, -170>>, <<-166, -166>>, <<-162, -162>>,
       <<-154, -154>>, <<-144, -144>>, <<-120, -120>>, <<-117, -116>>,
       <<-113, -98>>, <<-96, -95>>, <<2, 2>>, <<14, 14>>, <<18, 18>>,
       <<23, 23>>, <<32, 32>>, <<34, 34>>, <<43, 43>>, <<46, 46>>,
       <<539, 539>>, <<559, 562>>, <<539, 539>> >>

\* fill_gaps, the scan of one entry for one gap: some two neighbouring runs end
\* the day before the gap and start the day after it.
StraddlesGap(e, start_ts, end_ts) ==
    \E i \in 1..(Len(e.dates_compressed) - 1) :
        /\ start_ts - ONE_DAY_SECONDS = e.dates_compressed[i][2]
        /\ end_ts + ONE_DAY_SECONDS = e.dates_compressed[i + 1][1]

\* FillGapInEntry that fills the gap as soon as a run starts the day after it.
FillGapInEntryAnyRunAfter(e, gap) ==
    LET start_ts == DateTs(gap[1])
        end_ts == DateTs(gap[2])
        dates == ExplodeRun(start_ts, end_ts)
    IN IF \E i \in 2..Len(e.dates_compressed) :
              end_ts + ONE_DAY_SECONDS = e.dates_compressed[i][1]
       THEN FullCompress(
                [e EXCEPT !.dates = @ \cup {dates[j] : j \in 1..Len(dates)}])
       ELSE e

\* fill_gaps, the body of the loop over the entries, for one gap: the days of
\* the gap join the loose set and the entry is compressed.
FillGapInEntry(e, gap) ==
    LET start_ts == DateTs(gap[1])
        end_ts == DateTs(gap[2])
        dates == ExplodeRun(start_ts, end_ts)
    IN IF StraddlesGap(e, start_ts, end_ts)
       THEN FullCompress(
                [e EXCEPT !.dates = @ \cup {dates[j] : j \in 1..Len(dates)}])
       ELSE e

\* fill_gaps, the loop over the gaps.
RECURSIVE FillGapsLoop(_, _)
FillGapsLoop(t, gaps) ==
    IF gaps = <<>> THEN t
    ELSE FillGapsLoop(
             [p \in DOMAIN t |->
                 [k \in DOMAIN t[p] |-> FillGapInEntry(t[p][k], Head(gaps))]],
             Tail(gaps))

\* `0..entry.dates_compressed.len() - 1` on an entry without runs: the
\* subtraction overflows (debug build) or the wrapped range indexes an empty
\* VecDeque (release build); fill_gaps panics either way.
FillGapsPanics(t) ==
    /\ KNOWN_GAPS_STR # <<>>
    /\ \E p \in DOMAIN t : \E k \in DOMAIN t[p] : t[p][k].dates_compressed = <<>>

\* fill_gaps that closes, in each entry, only the first gap of the table the
\* entry straddles.
FillGapsFirstGapOnly(t) ==
    [p \in DOMAIN t |->
        [k \in DOMAIN t[p] |->
            LET hit == {g \in 1..Len(KNOWN_GAPS_STR) :
                           StraddlesGap(t[p][k], DateTs(KNOWN_GAPS_STR[g][1]),
                                        DateTs(KNOWN_GAPS_STR[g][2]))}
            IN IF hit = {} THEN t[p][k]
               ELSE FillGapInEntry(
                        t[p][k],
                        KNOWN_GAPS_STR[CHOOSE g \in hit :
                                           \A h \in hit : g <= h])]]

\* RoasTrie::fill_gaps
FillGaps(t) == FillGapsLoop(t, KNOWN_GAPS_STR)

\* The (start, end) pairs of an entry as calendar dates.
DatesRanges(e) ==
    [i \in 1..Len(e.dates_compressed) |->
        <<TsDate(e.dates_compressed[i][1]), TsDate(e.dates_compressed[i][2])>>]

\* RoasLookupEntry
LookupEntry(prefix, e) ==
    [prefix |-> prefix, origin |-> e.origin, max_len |-> e.max_len,
     dates_ranges |-> DatesRanges(e)]

\* The filters of search with an expiry test that takes a run ending on
\* latest_date itself for expired.
SearchKeepsEndingLater(e, origin, max_len, date, only_expired, latest) ==
    /\ origin # None => e.origin = origin[1]
    /\ max_len # None => e.max_len = max_len[1]
    /\ date # None =>
           ~(\A i \in 1..Len(e.dates_compressed) :
                 date[1] < e.dates_compressed[i][1]
                 \/ date[1] > e.dates_compressed[i][2])
    /\ ~(only_expired
         /\ \E i \in 1..Len(e.dates_compressed) :
                e.dates_compressed[i][2] > latest)

\* search, the filters one entry has to pass (roas_trie.rs:436-467).
SearchKeeps(e, origin, max_len, date, only_expired, latest) ==
    /\ origin # None => e.origin = origin[1]
    /\ max_len # None => e.max_len = max_len[1]
    /\ date # None =>
           ~(\A i \in 1..Len(e.dates_compressed) :
                 date[1] < e.dates_compressed[i][1]
                 \/ date[1] > e.dates_compressed[i][2])
    /\ ~(only_expired
         /\ \E i \in 1..Len(e.dates_compressed) :
                e.dates_compressed[i][2] >= latest)

\* search, the inner loop over map.values() of one network.
RECURSIVE SearchMap(_, _, _, _, _, _, _, _)
SearchMap(prefix, map, keys, origin, max_len, date, only_expired, latest) ==
    IF keys = {} THEN <<>>
    ELSE LET k == CHOOSE x \in keys : TRUE
             rest == SearchMap(prefix, map, keys \ {k}, origin, max_len, date,
                               only_expired, latest)
         IN IF SearchKeeps(map[k], origin, max_len, date, only_expired, latest)
            THEN <<LookupEntry(prefix, map[k])>> \o rest
            ELSE rest

\* search, the outer loop over the candidate networks.
RECURSIVE SearchLoop(_, _, _, _, _, _, _)
SearchLoop(t, iter, origin, max_len, date, only_expired, latest) ==
    IF iter = {} THEN <<>>
    ELSE LET q == CHOOSE x \in iter :
                      \A y \in iter : PrefixLen(x) <= PrefixLen(y)
         IN SearchMap(q, t[q], DOMAIN t[q], origin, max_len, date,
                      only_expired, latest)
            \o SearchLoop(t, iter \ {q}, origin, max_len, date, only_expired,
                          latest)

\* search with `current` looked at after the explicit date: an explicit date
\* stays in force when current is set.
SearchDateKept(idx, prefix, origin, max_len, date, current) ==
    LET iter == IF prefix # None THEN Matches(idx.trie, prefix[1])
                ELSE DOMAIN idx.trie
        only_expired == current = Some(FALSE)
        date_ts == IF date # None THEN Some(DateTs(date[1]))
                   ELSE IF current = Some(TRUE) THEN Some(idx.latest_date)
                   ELSE None
    IN SearchLoop(idx.trie, iter, origin, max_len, date_ts, only_expired,
                  idx.latest_date)

\* search that never looks at the origin filter.
SearchAnyOrigin(idx, prefix, origin, max_len, date, current) ==
    LET iter == IF prefix # None THEN Matches(idx.trie, prefix[1])
                ELSE DOMAIN idx.trie
        only_expired == current = Some(FALSE)
        date_ts == IF current = Some(TRUE) THEN Some(idx.latest_date)
                   ELSE IF current = Some(FALSE) THEN None
                   ELSE IF date # None THEN Some(DateTs(date[1])) ELSE None
    IN SearchLoop(idx.trie, iter, None, max_len, date_ts, only_expired,
                  idx.latest_date)

\* RoasTrie::search
Search(idx, prefix, origin, max_len, date, current) ==
    LET iter == IF prefix # None THEN Matches(idx.trie, prefix[1])
                ELSE DOMAIN idx.trie
        only_expired == current = Some(FALSE)
        date_ts == IF current = Some(TRUE) THEN Some(idx.latest_date)
                   ELSE IF current = Some(FALSE) THEN None
                   ELSE IF date # None THEN Some(DateTs(date[1])) ELSE None
    IN SearchLoop(idx.trie, iter, origin, max_len, date_ts, only_expired,
                  idx.latest_date)

----------------------------------------------------------------------------
\* Snapshot file, lock and upstream of serve mode.

RECURSIVE SetMax(_, _)
SetMax(S, m) ==
    IF S = {} THEN m
    ELSE LET x == CHOOSE y \in S : TRUE
         IN SetMax(S \ {x}, IF x > m THEN x ELSE m)

\* update_latest_date that scans the runs only.
LatestOfRunsOnly(t) ==
    SetMax(UNION {UNION {(IF t[p][k].dates_compressed = <<>> THEN {}
                          ELSE {t[p][k].dates_compressed[
                                    Len(t[p][k].dates_compressed)][2]})
                         : k \in DOMAIN t[p]} : p \in DOMAIN t}, 0)

\* RoasTrie::update_latest_date: from 0, the largest loose date and the end of
\* the last run of every entry.
UpdateLatestDate(t) ==
    SetMax(UNION {UNION {t[p][k].dates \cup
                         (IF t[p][k].dates_compressed = <<>> THEN {}
                          ELSE {t[p][k].dates_compressed[
                                    Len(t[p][k].dates_compressed)][2]})
                         : k \in DOMAIN t[p]} : p \in DOMAIN t}, 0)

\* IpNet written out: family, prefix length and the address bits as a number.
RECURSIVE BitsToInt(_)
BitsToInt(bits) ==
    IF bits = <<>> THEN 0
    ELSE 2 * BitsToInt(SubSeq(bits, 1, Len(bits) - 1)) + bits[Len(bits)]

\* The address bits read back: the low `len` bits of n, most significant first.
RECURSIVE IntToBits(_, _)
IntToBits(n, len) ==
    IF len = 0 THEN <<>>
    ELSE Append(IntToBits(n \div 2, len - 1), n % 2)

EncodeNet(p) == <<p.fam, Len(p.bits), BitsToInt(p.bits)>>
DecodeNet(b) == Net(b[1], IntToBits(b[3], b[2]))

\* Encode of RoasTrieEntry that leaves the loose dates out.
EncodeEntryRunsOnly(e) == <<e.max_len, e.origin, <<>>, e.dates_compressed>>

\* #[derive(Encode)] of RoasTrieEntry: the fields in declaration order, the
\* HashSet as the list of its elements.
EncodeEntry(e) ==
    <<e.max_len, e.origin, SetToSeq(e.dates), e.dates_compressed>>

\* #[derive(Decode)] of RoasTrieEntry: the HashSet is rebuilt from the list.
DecodeEntry(b) ==
    [max_len |-> b[1], origin |-> b[2],
     dates |-> {b[3][i] : i \in 1..Len(b[3])},
     dates_compressed |-> b[4]]

\* Encode of HashMap<(u8, u32), RoasTrieEntry>: the (key, value) pairs.
RECURSIVE EncodeMap(_, _)
EncodeMap(map, keys) ==
    IF keys = {} THEN <<>>
    ELSE LET k == CHOOSE x \in keys : TRUE
         IN << <<k, EncodeEntry(map[k])>> >> \o EncodeMap(map, keys \ {k})

\* Decode of HashMap<(u8, u32), RoasTrieEntry>: the pairs inserted one by one.
RECURSIVE DecodeMap(_)
DecodeMap(pairs) ==
    IF pairs = <<>> THEN EmptyTrie
    ELSE MapPut(DecodeMap(SubSeq(pairs, 1, Len(pairs) - 1)),
                pairs[Len(pairs)][1], DecodeEntry(pairs[Len(pairs)][2]))

\* IpnetTrie::export_to_writer: one (network, map) item per stored network.
RECURSIVE ExportToWriter(_, _)
ExportToWriter(t, nets) ==
    IF nets = {} THEN <<>>
    ELSE LET q == CHOOSE x \in nets : TRUE
         IN << <<EncodeNet(q), EncodeMap(t[q], DOMAIN t[q])>> >>
            \o ExportToWriter(t, nets \ {q})

\* IpnetTrie::import_from_reader: every item inserted into a new trie.
RECURSIVE ImportFromReader(_)
ImportFromReader(items) ==
    IF items = <<>> THEN EmptyTrie
    ELSE MapPut(ImportFromReader(SubSeq(items, 1, Len(items) - 1)),
                DecodeNet(items[Len(items)][1]),
                DecodeMap(items[Len(items)][2]))

\* A snapshot file: the exported trie (latest_date is not stored), and whether
\* all of it was written.
CompleteFile(t) ==
    [exists |-> TRUE, complete |-> TRUE,
     bytes |-> ExportToWriter(t, DOMAIN t)]
PartialFile(t) ==
    [exists |-> TRUE, complete |-> FALSE,
     bytes |-> ExportToWriter(t, DOMAIN t)]
NoFile == [exists |-> FALSE, complete |-> FALSE, bytes |-> <<>>]

\* RoasTrie::load of a complete file.
Load(file) ==
    LET t == ImportFromReader(file.bytes)
    IN [trie |-> t, latest_date |-> UpdateLatestDate(t)]

\* The records of the snapshot file published for a day.
SnapshotFile(day) ==
    << [prefix |-> Net(4, <<0>>), max_len |-> 1, asn |-> 1, date |-> day] >>

\* The index the server loads at start-up: day 0 ingested.
StartFile ==
    CompleteFile(ProcessEntries(NewIndex, SnapshotFile(0), FALSE).trie)

\* RwLock::read returns at once unless the write side is held or a writer is
\* queued ahead (tokio's RwLock is write-preferring).
CanRead(writer, writer_queued) == ~writer /\ ~writer_queued

\* RwLock::write that never waits.
CanWriteAlways(readers, guard, writer) == TRUE

\* RwLock::write returns once no read guard and no write guard is alive.
CanWrite(readers, guard, writer) == readers = {} /\ ~guard /\ ~writer

\* drop(read_lock) that leaves the guard alive.
RefresherKeepRead(guard) == guard

\* drop(read_lock) of the refresh loop: the guard is gone.
RefresherDropRead(guard) == FALSE

\* The days an incremental update applies, in ascending order: every published
\* day after the working copy's latest_date.
RECURSIVE DaysFrom(_, _)
DaysFrom(day, newest) ==
    IF day > newest THEN <<>> ELSE <<day>> \o DaysFrom(day + 1, newest)

CrawlAfter(idx, newest) == DaysFrom(TsDate(idx.latest_date) + 1, newest)

\* What a request was answered with.  `query` tells the request apart: "ok" a
\* /search request whose parameters parse, "unparseable" a /search request
\* whose prefix or date parameter does not parse, "health" a /health request.
\* `body` is "json" when a JSON body was sent and "closed" when the handler
\* task ended without sending a response; `error` and `count` are the fields
\* of RoasSearchResult.
NoResponse == [query |-> "none", body |-> "none", error |-> None, count |-> 0]

\* api.rs:125-135  Json(RoasSearchResult { count, error: None, data, .. })
SearchResponse(data) ==
    [query |-> "ok", body |-> "json", error |-> None, count |-> Len(data)]

\* api.rs:68-73  Json(json!({ipv4_roas_count, ipv6_roas_count, latest_date}))
HealthResponse(idx) ==
    [query |-> "health", body |-> "json", error |-> None,
     count |-> Cardinality(DOMAIN idx.trie)]

\* api.rs:94, 97  `.parse().unwrap()` on a parameter that does not parse: the
\* handler task panics and no response is sent.
PanicResponse ==
    [query |-> "unparseable", body |-> "closed", error |-> None, count |-> 0]

----------------------------------------------------------------------------
\* What each specification leaves alone.

\* The key the single entry of EntrySpec is created under.
EntryKey == [max_len |-> 24, origin |-> 13335]

\* The single entry while another specification runs: never touched.
EntryIdle ==
    /\ entry = NewEntry(DateTs(0), EntryKey.max_len, EntryKey.origin, TRUE)
    /\ e_before = entry
    /\ e_last = "new"
    /\ e_ops = 0

\* The index of Spec while another specification runs: never touched.
IndexIdle ==
    /\ trie = EmptyTrie
    /\ latest_date = 0
    /\ crashed = FALSE
    /\ last = [op |-> "new", rec |-> <<>>, bootstrap |-> FALSE]
    /\ ops = 0

\* No /search request has been made.
NoQuery == [asn |-> <<>>, prefix |-> <<>>, max_len |-> <<>>, date |-> <<>>,
            current |-> <<>>, page |-> <<>>, page_size |-> <<>>]
ApiIdle ==
    /\ api_query = NoQuery
    /\ api_resp = [status |-> "none"]

\* The refresh loop over several TALs is not running.
RefreshIdle ==
    /\ up_files = {}
    /\ rf_live = [trie |-> <<>>, latest_date |-> 0]
    /\ rf_backup = [trie |-> <<>>, latest_date |-> 0]
    /\ rf_todo = <<>>
    /\ rf_pc = "idle"

\* No batch is being ingested in both modes.
ModesIdle ==
    /\ in_batch = <<>>
    /\ inc_index = [trie |-> <<>>, latest_date |-> 0]
    /\ inc_done = FALSE
    /\ bulk_index = [trie |-> <<>>, latest_date |-> 0]
    /\ bulk_pc = "idle"

\* crawl_tal_after has not been called.
CrawlIdle ==
    /\ cr_listed = {}
    /\ cr_after = <<>>
    /\ cr_out = <<"not called">>

\* The Rebuild command while another specification runs: not started.
RebuildIdle ==
    /\ all_files = {}
    /\ receiver_entries = <<>>
    /\ rb_applied = <<>>
    /\ rb_failed = {}
    /\ pb_pending = {}
    /\ receiver_pb = <<>>
    /\ pb_log = {}
    /\ rb_pc = "recv"
    /\ rb_out = NoFile

\* Serve mode at start-up (main.rs, Opts::Serve): the index is loaded from the
\* file at `path`, no lock is held, no request is being handled and the
\* refresh loop waits for its first tick.
ServeInit ==
    /\ disk_primary = StartFile
    /\ disk_backup = NoFile
    /\ live = Load(StartFile)
    /\ lock_readers = {}
    /\ r_read = FALSE
    /\ lock_writer = FALSE
    /\ rpc = "tick"
    /\ backup = NewIndex
    /\ todo = <<>>
    /\ dumped = "none"
    /\ avail = 0
    /\ hpc = [h \in Handlers |-> "idle"]
    /\ h_latest = [h \in Handlers |-> 0]
    /\ h_trie = [h \in Handlers |-> EmptyTrie]
    /\ h_resp = [h \in Handlers |-> NoResponse]
    /\ published = {Load(StartFile)}

----------------------------------------------------------------------------
\* EntrySpec: one entry, created by new, then any calls of push_date (either
\* mode) and full_compress.

EntryInit ==
    /\ \E d \in Days, b \in BOOLEAN :
           entry = NewEntry(DateTs(d), EntryKey.max_len, EntryKey.origin, b)
    /\ e_before = entry
    /\ e_last = "new"
    /\ e_ops = 0
    /\ IndexIdle
    /\ ServeInit
    /\ RebuildIdle
    /\ ApiIdle
    /\ CrawlIdle
    /\ ModesIdle
    /\ RefreshIdle

EPushDate ==
    /\ e_ops < MaxEntryOps
    /\ \E d \in Days, b \in BOOLEAN :
           entry' = PushDate(entry, DateTs(d), b)
    /\ e_before' = entry
    /\ e_last' = "push_date"
    /\ e_ops' = e_ops + 1
    /\ UNCHANGED <<indexVars, serveVars, rebuildVars, apiVars, crawlVars, modesVars, refreshVars>>

EFullCompress ==
    /\ e_ops < MaxEntryOps
    /\ ~FullCompressPanics(entry)
    /\ entry' = FullCompress(entry)
    /\ e_before' = entry
    /\ e_last' = "full_compress"
    /\ e_ops' = e_ops + 1
    /\ UNCHANGED <<indexVars, serveVars, rebuildVars, apiVars, crawlVars, modesVars, refreshVars>>

EntryNext == EPushDate \/ EFullCompress

EntrySpec == EntryInit /\ [][EntryNext]_vars

\* A run list is canonical: strictly sorted by start, and consecutive runs
\* (s1,e1),(s2,e2) have s2 >= e1 + 2 days.
Canonical(runs) ==
    \A i \in 1..(Len(runs) - 1) :
        /\ runs[i][1] < runs[i + 1][1]
        /\ runs[i + 1][1] >= runs[i][2] + 2 * ONE_DAY_SECONDS

\* The timestamps contains_date is asked about: UTC midnight of every day of
\* the window, of the day before it and of the day after it.
ProbeTs == {DateTs(d) : d \in (0 - 1)..(MaxDay + 1)}

\* C1: after full_compress returns, on any entry reached by new and push_date
\* calls of either mode, the loose set is empty and the run list is canonical
\* (strictly sorted, no duplicate, overlapping or adjacent runs).
C1_CompressedCanonical ==
    e_last = "full_compress" =>
        /\ entry.dates = {}
        /\ Canonical(entry.dates_compressed)

\* C5: for every day d, contains_date(d) answers the same immediately after
\* full_compress as it did immediately before it.
C5_ContainsDateKept ==
    e_last = "full_compress" =>
        \A ts \in ProbeTs : ContainsDate(entry, ts) = ContainsDate(e_before, ts)

\* C5 witness: full_compress has just rewritten an entry that held both loose
\* days and runs, and the entry contains some day but not every day.
C5_Witness ==
    /\ e_last = "full_compress"
    /\ e_before.dates # {}
    /\ e_before.dates_compressed # <<>>
    /\ entry.dates_compressed # e_before.dates_compressed
    /\ \E ts \in ProbeTs : ts \in e_before.dates /\ ContainsDate(entry, ts)
    /\ \E d \in Days : ~ContainsDate(entry, DateTs(d))

\* C18: incremental push_date(day, false) on an entry whose last run is
\* (s, e): day = e + 86400 makes the last run (s, day); day > e + 86400
\* appends the run (day, day); day <= e leaves the entry as it is; an empty run
\* list becomes [(day, day)].  The loose set and every run but the last are
\* never changed.
C18_IncrementalPushCases ==
    \A d \in Days :
        LET day == DateTs(d)
            runs == entry.dates_compressed
            n == Len(runs)
            after == PushDate(entry, day, FALSE)
        IN /\ after.dates = entry.dates
           /\ after.max_len = entry.max_len
           /\ after.origin = entry.origin
           /\ n = 0 => after.dates_compressed = << <<day, day>> >>
           /\ n > 0 =>
                  /\ day = runs[n][2] + 86400 =>
                         after.dates_compressed =
                             SubSeq(runs, 1, n - 1) \o << <<runs[n][1], day>> >>
                  /\ day > runs[n][2] + 86400 =>
                         after.dates_compressed = runs \o << <<day, day>> >>
                  /\ day <= runs[n][2] => after = entry
                  /\ SubSeq(after.dates_compressed, 1, n - 1)
                         = SubSeq(runs, 1, n - 1)

\* C18 witness: the last call was a push_date that stretched the last of two
\* runs by one day on an entry that also holds a loose day, and on the entry
\* it left behind each of the three cases applies to some day.
C18_Witness ==
    /\ e_last = "push_date"
    /\ e_before.dates # {}
    /\ Len(e_before.dates_compressed) = 2
    /\ Len(entry.dates_compressed) = 2
    /\ entry.dates_compressed[2][2]
           = e_before.dates_compressed[2][2] + ONE_DAY_SECONDS
    /\ entry.dates_compressed[1] = e_before.dates_compressed[1]
    /\ entry.dates = e_before.dates
    /\ \E d \in Days : DateTs(d) = entry.dates_compressed[2][2] + 86400
    /\ \E d \in Days : DateTs(d) <= entry.dates_compressed[1][2]

\* C25: full_compress is idempotent: on every entry reached by new, push_date
\* of either mode and full_compress, a second full_compress right after the
\* first finds nothing to change.
C25_FullCompressIdempotent ==
    ~FullCompressPanics(entry) =>
        /\ ~FullCompressPanics(FullCompress(entry))
        /\ FullCompress(FullCompress(entry)) = FullCompress(entry)

\* C25 witness: full_compress has just returned an entry as it found it, with
\* the duplicate run that only an earlier full_compress, of a loose day that
\* a run covered too, can have left.
C25_Witness ==
    /\ e_last = "full_compress"
    /\ e_before = entry
    /\ entry.dates = {}
    /\ ~Canonical(entry.dates_compressed)

----------------------------------------------------------------------------
\* Spec: one index, created empty, then any calls of process_entries (either
\* mode) and compress_dates.  A call of process_entries with a Vec of several
\* records is the same fold as that many calls with one record each.

Index == [trie |-> trie, latest_date |-> latest_date]

Init ==
    /\ trie = NewIndex.trie
    /\ latest_date = NewIndex.latest_date
    /\ crashed = FALSE
    /\ last = [op |-> "new", rec |-> <<>>, bootstrap |-> FALSE]
    /\ ops = 0
    /\ EntryIdle
    /\ ServeInit
    /\ RebuildIdle
    /\ ApiIdle
    /\ CrawlIdle
    /\ ModesIdle
    /\ RefreshIdle

DoProcessEntries ==
    /\ ~crashed
    /\ ops < MaxOps
    /\ \E r \in Records, b \in BOOLEAN :
           LET idx == ProcessEntries(Index, <<r>>, b)
           IN /\ trie' = idx.trie
              /\ latest_date' = idx.latest_date
              /\ last' = [op |-> "process_entries", rec |-> r, bootstrap |-> b]
    /\ ops' = ops + 1
    /\ UNCHANGED <<crashed, entryVars, serveVars, rebuildVars, apiVars, crawlVars, modesVars, refreshVars>>

DoCompressDates ==
    /\ ~crashed
    /\ ops < MaxOps
    /\ IF CompressDatesPanics(trie)
       THEN crashed' = TRUE /\ UNCHANGED trie
       ELSE trie' = CompressDatesOf(trie) /\ UNCHANGED crashed
    /\ last' = [op |-> "compress_dates", rec |-> <<>>, bootstrap |-> FALSE]
    /\ ops' = ops + 1
    /\ UNCHANGED <<latest_date, entryVars, serveVars, rebuildVars, apiVars, crawlVars, modesVars, refreshVars>>

Next == DoProcessEntries \/ DoCompressDates

Spec == Init /\ [][Next]_vars

\* The timestamps validate is asked about.
QueryTs == {DateTs(d) : d \in IndexDays}
\* The origins validate is asked about: the published ones and one never seen.
QueryOrigins == RecordOrigins \cup {2}

\* Some stored entry at a network equal to or covering p has origin o, has
\* max_len >= prefix_len(p), and has ts in its loose days or in one of its runs.
HasCoveringRoa(t, p, o, ts) ==
    \E q \in DOMAIN t : \E k \in DOMAIN t[q] :
        /\ Covers(q, p)
        /\ t[q][k].origin = o
        /\ t[q][k].max_len >= PrefixLen(p)
        /\ \/ ts \in t[q][k].dates
           \/ \E i \in 1..Len(t[q][k].dates_compressed) :
                  t[q][k].dates_compressed[i][1] <= ts
                  /\ ts <= t[q][k].dates_compressed[i][2]

\* C2: validate(p, o, d) is Valid if and only if some stored entry sits at a
\* network equal to or covering p, has origin o, has max_len >= prefix_len(p)
\* and contains d in its logical date set (loose days or runs).
C2_ValidIffCoveringRoa ==
    \A p \in QueryPrefixes, o \in QueryOrigins, ts \in QueryTs :
        (Validate(trie, p, o, ts) = "Valid") <=> HasCoveringRoa(trie, p, o, ts)

\* C2 witness: a query for a network that is not stored itself is Valid through
\* an entry of a covering network that holds the day as a loose day only.
C2_Witness ==
    \E p \in QueryPrefixes, o \in QueryOrigins, ts \in QueryTs :
        /\ p \notin DOMAIN trie
        /\ Validate(trie, p, o, ts) = "Valid"
        /\ \A q \in DOMAIN trie : \A k \in DOMAIN trie[q] :
               ~ContainsDateRunsOnly(trie[q][k], ts)

\* C3: validate is Unknown exactly when no stored network of the family equals
\* or covers p, Invalid exactly when some stored network does and no entry
\* under any of them passes origin, max_len and date together, and Valid
\* otherwise; it returns nothing else.
C3_VerdictCases ==
    \A p \in QueryPrefixes, o \in QueryOrigins, ts \in QueryTs :
        LET v == Validate(trie, p, o, ts)
            covered == \E q \in DOMAIN trie : Covers(q, p)
        IN /\ v \in {"Valid", "Invalid", "Unknown"}
           /\ (v = "Unknown") <=> ~covered
           /\ (v = "Invalid") <=> (covered /\ ~HasCoveringRoa(trie, p, o, ts))

\* C3 witness: one index gives all three verdicts, Unknown for a network of a
\* family that has stored networks of its own.
C3_Witness ==
    /\ \E p \in QueryPrefixes, o \in QueryOrigins, ts \in QueryTs :
           Validate(trie, p, o, ts) = "Valid"
    /\ \E p \in QueryPrefixes, o \in QueryOrigins, ts \in QueryTs :
           Validate(trie, p, o, ts) = "Invalid"
    /\ \E p \in QueryPrefixes, o \in QueryOrigins, ts \in QueryTs :
           /\ Validate(trie, p, o, ts) = "Unknown"
           /\ \E q \in DOMAIN trie : q.fam = p.fam

\* C4: applying a record twice in a row with process_entries, as two calls or
\* as one call with the record twice, leaves the index (trie keys, loose sets,
\* run lists, latest_date) as applying it once does, in bulk and in
\* incremental mode.
C4_IngestIdempotent ==
    \A r \in Records, b \in BOOLEAN :
        LET once == ProcessEntries(Index, <<r>>, b)
        IN /\ ProcessEntries(once, <<r>>, b) = once
           /\ ProcessEntries(Index, <<r, r>>, b) = once

\* C4 witness: the last call applied a record incrementally to an entry that
\* already existed and it grew the entry's last run, which now ends at the
\* record's day; the same record in bulk mode would still change the index.
C4_Witness ==
    /\ last.op = "process_entries"
    /\ ~last.bootstrap
    /\ LET r == last.rec
           e == trie[r.prefix][<<AsU8(r.max_len), r.asn>>]
           n == Len(e.dates_compressed)
       IN /\ n >= 1
          /\ e.dates_compressed[n][1] < e.dates_compressed[n][2]
          /\ e.dates_compressed[n][2] = DateTs(r.date)
          /\ ProcessEntries(Index, <<r>>, TRUE) # Index

----------------------------------------------------------------------------
\* IndexSpec: one index, created empty, then any calls of process_entries
\* (either mode), compress_dates, fill_gaps, and dump followed by load of the
\* dumped file (the Update and Fix commands work on a loaded index).

\* The records fed to the index of IndexSpec.
FixRecords ==
    [prefix : {Net(4, <<>>), Net(4, <<0>>)}, max_len : {1},
     asn : RecordOrigins, date : FixDays]

IProcessEntries ==
    /\ ~crashed
    /\ ops < MaxFixOps
    /\ \E r \in FixRecords, b \in BOOLEAN :
           LET idx == ProcessEntries(Index, <<r>>, b)
           IN /\ trie' = idx.trie
              /\ latest_date' = idx.latest_date
              /\ last' = [op |-> "process_entries", rec |-> <<>>, bootstrap |-> b]
    /\ ops' = ops + 1
    /\ UNCHANGED <<crashed, entryVars, serveVars, rebuildVars, apiVars, crawlVars, modesVars, refreshVars>>

ICompressDates ==
    /\ ~crashed
    /\ ops < MaxFixOps
    /\ IF CompressDatesPanics(trie)
       THEN crashed' = TRUE /\ UNCHANGED trie
       ELSE trie' = CompressDatesOf(trie) /\ UNCHANGED crashed
    /\ last' = [op |-> "compress_dates", rec |-> <<>>, bootstrap |-> FALSE]
    /\ ops' = ops + 1
    /\ UNCHANGED <<latest_date, entryVars, serveVars, rebuildVars, apiVars, crawlVars, modesVars, refreshVars>>

IFillGaps ==
    /\ ~crashed
    /\ ops < MaxFixOps
    /\ IF FillGapsPanics(trie)
       THEN crashed' = TRUE /\ UNCHANGED trie
       ELSE trie' = FillGaps(trie) /\ UNCHANGED crashed
    /\ last' = [op |-> "fill_gaps", rec |-> <<>>, bootstrap |-> FALSE]
    /\ ops' = ops + 1
    /\ UNCHANGED <<latest_date, entryVars, serveVars, rebuildVars, apiVars, crawlVars, modesVars, refreshVars>>

\* dump(path) of the index, then load(path) of the file: the loaded index
\* takes the place of the dumped one.
IDumpLoad ==
    /\ ~crashed
    /\ ops < MaxFixOps
    /\ LET idx == Load(CompleteFile(trie))
       IN /\ trie' = idx.trie
          /\ latest_date' = idx.latest_date
    /\ last' = [op |-> "load", rec |-> <<>>, bootstrap |-> FALSE]
    /\ ops' = ops + 1
    /\ UNCHANGED <<crashed, entryVars, serveVars, rebuildVars, apiVars, crawlVars, modesVars, refreshVars>>

IndexNext == IProcessEntries \/ ICompressDates \/ IFillGaps \/ IDumpLoad

IndexSpec == Init /\ [][IndexNext]_vars

\* The logical date set of an entry: its loose days and every day of its runs.
LogicalDates(e) ==
    LET days == ExplodeRuns(e.dates_compressed)
    IN e.dates \cup {days[i] : i \in 1..Len(days)}

\* Every loose timestamp and every run endpoint of every entry of a trie.
Endpoints(t) ==
    UNION {UNION {t[p][k].dates
                  \cup {t[p][k].dates_compressed[i][1] :
                            i \in 1..Len(t[p][k].dates_compressed)}
                  \cup {t[p][k].dates_compressed[i][2] :
                            i \in 1..Len(t[p][k].dates_compressed)}
                  : k \in DOMAIN t[p]} : p \in DOMAIN t}

\* The largest of them, 0 for a trie without entries.
MaxEndpoint(t) ==
    IF Endpoints(t) = {} THEN 0
    ELSE CHOOSE m \in Endpoints(t) : \A x \in Endpoints(t) : x <= m

C13_LoadedLatestDate ==
    LET loaded == Load(CompleteFile(trie))
    IN /\ loaded.latest_date = MaxEndpoint(loaded.trie)
       /\ loaded.latest_date = latest_date
       /\ last.op = "load" => latest_date = MaxEndpoint(trie)

\* C13 witness: the index was just loaded, its latest_date is a loose day that
\* lies after the end of every run, and some entry has runs.
C13_Witness ==
    /\ last.op = "load"
    /\ \E p \in DOMAIN trie : \E k \in DOMAIN trie[p] :
           /\ latest_date \in trie[p][k].dates
           /\ trie[p][k].dates_compressed # <<>>
    /\ LatestOfRunsOnly(trie) < latest_date
    /\ LatestOfRunsOnly(trie) > 0

\* C14: after any sequence of process_entries calls of either mode,
\* compress_dates and fill_gaps from an empty or a loaded index, latest_date is
\* at least every loose timestamp and every run endpoint of every entry, and
\* it equals that maximum after compress_dates.
C14_LatestDateBoundsEntries ==
    /\ \A x \in Endpoints(trie) : latest_date >= x
    /\ (last.op = "compress_dates" /\ ~crashed) =>
           latest_date = MaxEndpoint(trie)

\* C14 witness: fill_gaps has just joined the runs that ended on 2022-01-02
\* and started on 2022-01-04 of an entry built by two incremental calls, and
\* latest_date is the end of the joined run.
C14_Witness ==
    /\ last.op = "fill_gaps"
    /\ ~crashed
    /\ ops = 3
    /\ \E p \in DOMAIN trie : \E k \in DOMAIN trie[p] :
           /\ trie[p][k].dates_compressed = << <<DateTs(1), DateTs(3)>> >>
           /\ latest_date = DateTs(3)

\* Every entry of a trie has an empty loose set and a canonical run list.
AllCanonical(t) ==
    \A p \in DOMAIN t : \A k \in DOMAIN t[p] :
        /\ t[p][k].dates = {}
        /\ Canonical(t[p][k].dates_compressed)

\* C19: from an index in which every entry has an empty loose set and a
\* canonical run list, every incremental-mode process_entries call leaves an
\* index in which every entry, old or new, has an empty loose set and a
\* canonical run list; no full_compress is needed in between.
C19_IncrementalKeepsCanonical ==
    [][(/\ AllCanonical(trie)
        /\ last'.op = "process_entries"
        /\ ~last'.bootstrap) => AllCanonical(trie')]_vars

\* C19 witness: three incremental calls in a row on the empty index have left
\* two entries, one of them with two runs, all canonical and without loose
\* days.
C19_Witness ==
    /\ last.op = "process_entries"
    /\ ~last.bootstrap
    /\ ops = 3
    /\ AllCanonical(trie)
    /\ Cardinality(DOMAIN trie) = 2
    /\ \E p \in DOMAIN trie : \E k \in DOMAIN trie[p] :
           Len(trie[p][k].dates_compressed) = 2

----------------------------------------------------------------------------
\* SearchSpec: one index, created empty, then any calls of process_entries
\* (either mode) and compress_dates with records of two origins and two
\* max_len values; search is asked about every index reached.

\* The runs (s1,e1),(s2,e2) of an entry that stand next to each other around
\* the gap: e1 is the day before its first day, s2 the day after its last.
StraddlingRuns(e, gap) ==
    {i \in 1..(Len(e.dates_compressed) - 1) :
         /\ e.dates_compressed[i][2] = DateTs(gap[1]) - ONE_DAY_SECONDS
         /\ e.dates_compressed[i + 1][1] = DateTs(gap[2]) + ONE_DAY_SECONDS}

\* The runs of an entry, as a set.
RunSet(e) == {e.dates_compressed[i] : i \in 1..Len(e.dates_compressed)}

\* C23: when fill_gaps returns, every entry that had two runs next to each
\* other around a known gap has a single run from s1 (or before) to e2 (or
\* after) in their place, an empty loose set and a canonical run list.
C23_FillGapsMergesStraddlingRuns ==
    [][(last'.op = "fill_gaps" /\ ~crashed') =>
          \A g \in 1..Len(KNOWN_GAPS_STR) :
          \A p \in DOMAIN trie : \A k \in DOMAIN trie[p] :
          \A i \in StraddlingRuns(trie[p][k], KNOWN_GAPS_STR[g]) :
              LET e == trie[p][k]
                  f == trie'[p][k]
              IN /\ \E r \in RunSet(f) :
                        /\ r[1] <= e.dates_compressed[i][1]
                        /\ r[2] >= e.dates_compressed[i + 1][2]
                 /\ f.dates = {}
                 /\ Canonical(f.dates_compressed)]_vars

\* C24: fill_gaps leaves every entry that has no two runs next to each other
\* around a known gap as it was, loose set and run list, and changes neither
\* the set of prefixes, nor the keys under a prefix, nor latest_date.
C24_FillGapsFrame ==
    [][last'.op = "fill_gaps" =>
          /\ DOMAIN trie' = DOMAIN trie
          /\ \A p \in DOMAIN trie : DOMAIN trie'[p] = DOMAIN trie[p]
          /\ latest_date' = latest_date
          /\ \A p \in DOMAIN trie : \A k \in DOMAIN trie[p] :
                 (\A g \in 1..Len(KNOWN_GAPS_STR) :
                      StraddlingRuns(trie[p][k], KNOWN_GAPS_STR[g]) = {})
                 => trie'[p][k] = trie[p][k]]_vars

\* C24 witness: fill_gaps has returned on an index holding an entry whose
\* second run starts the day after the gap while its first run ends two days
\* before it, and the entry still has those two runs.
C24_Witness ==
    /\ last.op = "fill_gaps"
    /\ ~crashed
    /\ \E p \in DOMAIN trie : \E k \in DOMAIN trie[p] :
           /\ trie[p][k].dates = {}
           /\ trie[p][k].dates_compressed =
                  << <<DateTs(0), DateTs(0)>>, <<DateTs(3), DateTs(3)>> >>

\* The records fed to the index of SearchSpec: two networks, one covering the
\* other, and three (max_len, origin) keys under the covered one.
SearchRecords ==
    [prefix : {Net(4, <<>>)}, max_len : {1}, asn : {1}, date : SearchDays]
    \cup [prefix : {Net(4, <<0>>)}, max_len : {1}, asn : {1, 2},
          date : SearchDays]
    \cup [prefix : {Net(4, <<0>>)}, max_len : {2}, asn : {1},
          date : SearchDays]

SProcessEntries ==
    /\ ~crashed
    /\ ops < MaxSearchOps
    /\ \E r \in SearchRecords, b \in BOOLEAN :
           LET idx == ProcessEntries(Index, <<r>>, b)
           IN /\ trie' = idx.trie
              /\ latest_date' = idx.latest_date
              /\ last' = [op |-> "process_entries", rec |-> <<>>,
                          bootstrap |-> b]
    /\ ops' = ops + 1
    /\ UNCHANGED <<crashed, entryVars, serveVars, rebuildVars, apiVars, crawlVars, modesVars, refreshVars>>

SCompressDates ==
    /\ ~crashed
    /\ ops < MaxSearchOps
    /\ IF CompressDatesPanics(trie)
       THEN crashed' = TRUE /\ UNCHANGED trie
       ELSE trie' = CompressDatesOf(trie) /\ UNCHANGED crashed
    /\ last' = [op |-> "compress_dates", rec |-> <<>>, bootstrap |-> FALSE]
    /\ ops' = ops + 1
    /\ UNCHANGED <<latest_date, entryVars, serveVars, rebuildVars, apiVars, crawlVars, modesVars, refreshVars>>

SearchNext == SProcessEntries \/ SCompressDates

SearchSpec == Init /\ [][SearchNext]_vars

\* The arguments search is asked with: no network, a network under both stored
\* ones, a network under the covering one only; no origin, a stored one, one
\* never stored; no max_len, the two stored ones; no date, every day of the
\* window.
SearchPrefixArgs ==
    {None, Some(Net(4, <<0, 1>>)), Some(Net(4, <<1>>))}
SearchOriginArgs == {None, Some(1), Some(3)}
SearchMaxLenArgs == {None, Some(1), Some(2)}
SearchDateArgs == {None} \cup {Some(d) : d \in SearchDays}

\* The stored entries, as (network, key) pairs, under the candidate networks
\* of a prefix argument.
Candidates(t, prefix) ==
    {<<q, k>> \in UNION {{<<q2, k2>> : k2 \in DOMAIN t[q2]} : q2 \in DOMAIN t} :
        prefix # None => Covers(q, prefix[1])}

\* ts lies inside some run of e.
InSomeRun(e, ts) ==
    \E i \in 1..Len(e.dates_compressed) :
        e.dates_compressed[i][1] <= ts /\ ts <= e.dates_compressed[i][2]

\* The (network, key) pairs of a result list.
ResultKeys(results) ==
    {<<results[i].prefix, <<results[i].max_len, results[i].origin>>>> :
        i \in 1..Len(results)}

\* A result list has exactly one result for every pair of `want`.
OnePerEntry(results, want) ==
    /\ ResultKeys(results) = want
    /\ Len(results) = Cardinality(want)

\* C15: search(prefix, origin, max_len, date, current = None) returns exactly
\* one result per stored entry that lies under a candidate network (equal to
\* or covering the prefix, or any network when none is given) and passes all
\* present filters: origin equal, max_len equal, date inside some run; no such
\* entry is left out and none is returned twice.
C15_SearchExactlyTheSurvivors ==
    \A prefix \in SearchPrefixArgs, origin \in SearchOriginArgs,
       max_len \in SearchMaxLenArgs, date \in SearchDateArgs :
        OnePerEntry(
            Search(Index, prefix, origin, max_len, date, None),
            {c \in Candidates(trie, prefix) :
                /\ origin # None => trie[c[1]][c[2]].origin = origin[1]
                /\ max_len # None => trie[c[1]][c[2]].max_len = max_len[1]
                /\ date # None =>
                       InSomeRun(trie[c[1]][c[2]], DateTs(date[1]))})

\* C15 witness: under one network the index holds two entries of different
\* origins, and a search by prefix, origin and date returns one of them and
\* leaves the other out.
C15_Witness ==
    /\ \E q \in DOMAIN trie : Cardinality(DOMAIN trie[q]) = 2
    /\ \E prefix \in SearchPrefixArgs, origin \in SearchOriginArgs,
          date \in SearchDateArgs :
           /\ prefix # None /\ origin # None /\ date # None
           /\ Len(Search(Index, prefix, origin, None, date, None)) = 1
           /\ Cardinality(Candidates(trie, prefix)) = 2

\* C16: when current is set the date argument is ignored: for every d,
\* search(.., d, current = true) is search(.., latest_date as a date, None),
\* and search(.., d, current = false) returns exactly the entries passing the
\* other filters that have no run whose end >= latest_date.
C16_CurrentOverridesDate ==
    \A prefix \in SearchPrefixArgs, origin \in SearchOriginArgs,
       max_len \in SearchMaxLenArgs :
        LET at_latest == Search(Index, prefix, origin, max_len,
                                Some(TsDate(latest_date)), None)
            expired == {c \in Candidates(trie, prefix) :
                /\ origin # None => trie[c[1]][c[2]].origin = origin[1]
                /\ max_len # None => trie[c[1]][c[2]].max_len = max_len[1]
                /\ \A i \in 1..Len(trie[c[1]][c[2]].dates_compressed) :
                       trie[c[1]][c[2]].dates_compressed[i][2] < latest_date}
        IN \A date \in SearchDateArgs :
               /\ Search(Index, prefix, origin, max_len, date, Some(TRUE))
                      = at_latest
               /\ OnePerEntry(
                      Search(Index, prefix, origin, max_len, date, Some(FALSE)),
                      expired)

\* C16 witness: the index holds an entry whose last run ends at latest_date
\* and one whose runs end before it; with a date on which only the stale one
\* was present, current = true returns the first alone and current = false
\* the second alone.
C16_Witness ==
    \E date \in SearchDateArgs :
        /\ date # None
        /\ DateTs(date[1]) < latest_date
        /\ Len(Search(Index, None, None, None, date, None)) = 1
        /\ Len(Search(Index, None, None, None, date, Some(TRUE))) = 1
        /\ Len(Search(Index, None, None, None, date, Some(FALSE))) = 1
        /\ Search(Index, None, None, None, date, Some(TRUE))
               # Search(Index, None, None, None, date, None)
        /\ Search(Index, None, None, None, date, Some(FALSE))
               = Search(Index, None, None, None, date, None)

----------------------------------------------------------------------------
\* ServeSpec: serve mode.  Request handlers (api.rs, search) and the refresh
\* loop (main.rs, Opts::Serve) share the index behind the RwLock; upstream
\* publishes one snapshot file per day.

\* The index a handler has read under its guard: the latest_date it read and
\* the trie it searched.
Observed(h) == [trie |-> h_trie[h], latest_date |-> h_latest[h]]

\* A writer is queued on the RwLock: the refresh loop awaits write().
WriterQueued == rpc = "write_lock"

\* api.rs:87 (search), api.rs:65 (health)  let trie = state.read().await;
HAcquire(h) ==
    /\ hpc[h] = "idle"
    /\ CanRead(lock_writer, WriterQueued)
    /\ lock_readers' = lock_readers \cup {h}
    /\ hpc' = [hpc EXCEPT ![h] = "locked"]
    /\ h_resp' = [h_resp EXCEPT ![h] = NoResponse]
    /\ UNCHANGED <<entryVars, indexVars, rebuildVars, apiVars, crawlVars, modesVars, refreshVars,
                   live, r_read, lock_writer, rpc, backup, todo, dumped, avail,
                   disk_primary, disk_backup, h_latest, h_trie, published>>

\* api.rs:88  let latest_ts = trie.latest_date;
HReadLatest(h) ==
    /\ hpc[h] = "locked"
    /\ h_latest' = [h_latest EXCEPT ![h] = live.latest_date]
    /\ hpc' = [hpc EXCEPT ![h] = "search"]
    /\ UNCHANGED <<entryVars, indexVars, rebuildVars, apiVars, crawlVars, modesVars, refreshVars, h_resp,
                   live, lock_readers, r_read, lock_writer, rpc, backup, todo,
                   dumped, avail, disk_primary, disk_backup, h_trie, published>>

\* A search that takes the trie out of the index it reads.
HSearchDrain(h) ==
    /\ hpc[h] = "search"
    /\ h_trie' = [h_trie EXCEPT ![h] = live.trie]
    /\ live' = [live EXCEPT !.trie = EmptyTrie]
    /\ hpc' = [hpc EXCEPT ![h] = "respond"]
    /\ UNCHANGED <<entryVars, indexVars, rebuildVars, apiVars, crawlVars, modesVars, refreshVars, h_resp,
                   lock_readers, r_read, lock_writer, rpc, backup, todo,
                   dumped, avail, disk_primary, disk_backup, h_latest, published>>

\* api.rs:93-99  let mut results = trie.search(..); the parameters parse.
HSearch(h) ==
    /\ hpc[h] = "search"
    /\ h_trie' = [h_trie EXCEPT ![h] = live.trie]
    /\ hpc' = [hpc EXCEPT ![h] = "respond"]
    /\ UNCHANGED <<entryVars, indexVars, rebuildVars, apiVars, crawlVars, modesVars, refreshVars, h_resp,
                   live, lock_readers, r_read, lock_writer, rpc, backup, todo,
                   dumped, avail, disk_primary, disk_backup, h_latest, published>>

\* api.rs:94, 97  p.parse().unwrap() / d.parse().unwrap() on a prefix or date
\* parameter that does not parse: the handler panics; the unwinding drops its
\* locals, the read guard among them, and the task ends without a response.
HParsePanic(h) ==
    /\ hpc[h] = "search"
    /\ lock_readers' = lock_readers \ {h}
    /\ hpc' = [hpc EXCEPT ![h] = "idle"]
    /\ h_latest' = [h_latest EXCEPT ![h] = 0]
    /\ h_trie' = [h_trie EXCEPT ![h] = EmptyTrie]
    /\ h_resp' = [h_resp EXCEPT ![h] = PanicResponse]
    /\ UNCHANGED <<entryVars, indexVars, rebuildVars, apiVars, crawlVars, modesVars, refreshVars,
                   live, r_read, lock_writer, rpc, backup, todo, dumped, avail,
                   disk_primary, disk_backup, published>>

\* api.rs:100-136  the results are sorted and paged, the response is built and
\* the read guard dropped.
HRespond(h) ==
    /\ hpc[h] = "respond"
    /\ lock_readers' = lock_readers \ {h}
    /\ hpc' = [hpc EXCEPT ![h] = "idle"]
    /\ h_latest' = [h_latest EXCEPT ![h] = 0]
    /\ h_trie' = [h_trie EXCEPT ![h] = EmptyTrie]
    /\ h_resp' = [h_resp EXCEPT ![h] =
                      SearchResponse(Search(Observed(h), None, None, None,
                                            None, None))]
    /\ UNCHANGED <<entryVars, indexVars, rebuildVars, apiVars, crawlVars, modesVars, refreshVars,
                   live, r_read, lock_writer, rpc, backup, todo, dumped, avail,
                   disk_primary, disk_backup, published>>

\* api.rs:64-74  health: the counts and latest_date are read under the guard,
\* the response is built and the guard dropped.
HHealth(h) ==
    /\ hpc[h] = "locked"
    /\ lock_readers' = lock_readers \ {h}
    /\ hpc' = [hpc EXCEPT ![h] = "idle"]
    /\ h_resp' = [h_resp EXCEPT ![h] = HealthResponse(live)]
    /\ UNCHANGED <<entryVars, indexVars, rebuildVars, apiVars, crawlVars, modesVars, refreshVars,
                   live, r_read, lock_writer, rpc, backup, todo, dumped, avail,
                   disk_primary, disk_backup, h_latest, h_trie, published>>

\* Upstream publishes the snapshot file of the next day.
Publish ==
    /\ avail < MaxServeDay
    /\ avail' = avail + 1
    /\ UNCHANGED <<entryVars, indexVars, rebuildVars, apiVars, crawlVars, modesVars, refreshVars, h_resp,
                   live, lock_readers, r_read, lock_writer, rpc, backup, todo,
                   dumped, disk_primary, disk_backup, hpc, h_latest, h_trie,
                   published>>

\* main.rs:257  interval.tick().await: a cycle starts.
RTick ==
    /\ rpc = "tick"
    /\ rpc' = "read_lock"
    /\ dumped' = "none"
    /\ UNCHANGED <<entryVars, indexVars, rebuildVars, apiVars, crawlVars, modesVars, refreshVars, h_resp,
                   live, lock_readers, r_read, lock_writer, backup, todo, avail,
                   disk_primary, disk_backup, hpc, h_latest, h_trie, published>>

\* main.rs:261  let read_lock = timer_lock.read().await;
RReadLock ==
    /\ rpc = "read_lock"
    /\ CanRead(lock_writer, FALSE)
    /\ r_read' = TRUE
    /\ rpc' = "clone"
    /\ UNCHANGED <<entryVars, indexVars, rebuildVars, apiVars, crawlVars, modesVars, refreshVars, h_resp,
                   live, lock_readers, lock_writer, backup, todo, dumped, avail,
                   disk_primary, disk_backup, hpc, h_latest, h_trie, published>>

\* main.rs:262  let mut backup = read_lock.clone();
RClone ==
    /\ rpc = "clone"
    /\ backup' = live
    /\ rpc' = "drop_read"
    /\ UNCHANGED <<entryVars, indexVars, rebuildVars, apiVars, crawlVars, modesVars, refreshVars, h_resp,
                   live, lock_readers, r_read, lock_writer, todo, dumped, avail,
                   disk_primary, disk_backup, hpc, h_latest, h_trie, published>>

\* main.rs:263  drop(read_lock);
RDropRead ==
    /\ rpc = "drop_read"
    /\ r_read' = RefresherDropRead(r_read)
    /\ rpc' = "update"
    /\ UNCHANGED <<entryVars, indexVars, rebuildVars, apiVars, crawlVars, modesVars, refreshVars, h_resp,
                   live, lock_readers, lock_writer, backup, todo, dumped, avail,
                   disk_primary, disk_backup, hpc, h_latest, h_trie, published>>

\* main.rs:264  backup.update(None, None): the crawl lists the files published
\* after the working copy's latest_date.
RCrawl ==
    /\ rpc = "update"
    /\ todo' = CrawlAfter(backup, avail)
    /\ rpc' = "apply"
    /\ UNCHANGED <<entryVars, indexVars, rebuildVars, apiVars, crawlVars, modesVars, refreshVars, h_resp,
                   live, lock_readers, r_read, lock_writer, backup, dumped,
                   avail, disk_primary, disk_backup, hpc, h_latest, h_trie,
                   published>>

\* An update that builds the working copy anew from the file it applies.
RApplyFromScratch ==
    /\ rpc = "apply"
    /\ todo # <<>>
    /\ backup' = ProcessEntries(NewIndex, SnapshotFile(Head(todo)), FALSE)
    /\ todo' = Tail(todo)
    /\ UNCHANGED <<entryVars, indexVars, rebuildVars, apiVars, crawlVars,
                   modesVars, refreshVars, h_resp, live, lock_readers, r_read, lock_writer,
                   rpc, dumped, avail, disk_primary, disk_backup, hpc,
                   h_latest, h_trie, published>>

\* main.rs:264  backup.update(None, None): the next file, in ascending date
\* order, is parsed and applied incrementally to the working copy.
RApply ==
    /\ rpc = "apply"
    /\ todo # <<>>
    /\ backup' = ProcessEntries(backup, SnapshotFile(Head(todo)), FALSE)
    /\ todo' = Tail(todo)
    /\ UNCHANGED <<entryVars, indexVars, rebuildVars, apiVars, crawlVars, modesVars, refreshVars, h_resp,
                   live, lock_readers, r_read, lock_writer, rpc, dumped, avail,
                   disk_primary, disk_backup, hpc, h_latest, h_trie, published>>

\* main.rs:264  backup.update(None, None) returns Ok: the working copy is the
\* complete result of this cycle's update.
RUpdateOk ==
    /\ rpc = "apply"
    /\ todo = <<>>
    /\ published' = published \cup {backup}
    /\ rpc' = "dump"
    /\ UNCHANGED <<entryVars, indexVars, rebuildVars, apiVars, crawlVars, modesVars, refreshVars, h_resp,
                   live, lock_readers, r_read, lock_writer, backup, todo,
                   dumped, avail, disk_primary, disk_backup, hpc, h_latest,
                   h_trie>>

\* main.rs:264  backup.update(None, None).unwrap() on Err (the crawl or a file
\* failed): the unwrap panics and the refresh thread ends.
RUpdateErr ==
    /\ rpc \in {"update", "apply"}
    /\ rpc' = "panicked"
    /\ todo' = <<>>
    /\ UNCHANGED <<entryVars, indexVars, rebuildVars, apiVars, crawlVars, modesVars, refreshVars, h_resp,
                   live, lock_readers, r_read, lock_writer, backup, dumped,
                   avail, disk_primary, disk_backup, hpc, h_latest, h_trie,
                   published>>

\* main.rs:267, roas_trie.rs:294  oneio::get_writer(path): the file at `path`
\* itself is created or truncated for writing; or opening it fails and dump
\* returns Err with the file untouched.
RDumpOpen ==
    /\ rpc = "dump"
    /\ \/ /\ disk_primary' = PartialFile(backup.trie)
          /\ rpc' = "dump_write"
          /\ UNCHANGED dumped
       \/ /\ dumped' = "err"
          /\ rpc' = "backup"
          /\ UNCHANGED disk_primary
    /\ UNCHANGED <<entryVars, indexVars, rebuildVars, apiVars, crawlVars, modesVars, refreshVars, h_resp,
                   live, lock_readers, r_read, lock_writer, backup, todo, avail,
                   disk_backup, hpc, h_latest, h_trie, published>>

\* roas_trie.rs:295-296  export_to_writer writes the trie into the open file:
\* all of it (Ok), or it fails part-way (Err).  main.rs:267-272 logs either.
RDumpWrite ==
    /\ rpc = "dump_write"
    /\ \/ /\ disk_primary' = CompleteFile(backup.trie)
          /\ dumped' = "ok"
       \/ /\ dumped' = "err"
          /\ UNCHANGED disk_primary
    /\ rpc' = "backup"
    /\ UNCHANGED <<entryVars, indexVars, rebuildVars, apiVars, crawlVars, modesVars, refreshVars, h_resp,
                   live, lock_readers, r_read, lock_writer, backup, todo, avail,
                   disk_backup, hpc, h_latest, h_trie, published>>

\* main.rs:274-306  the file at `path` is copied (or uploaded) to the backup
\* destination; a failure is logged and the destination left as it was.
RBackup ==
    /\ rpc = "backup"
    /\ \/ disk_backup' = disk_primary
       \/ UNCHANGED disk_backup
    /\ rpc' = "write_lock"
    /\ UNCHANGED <<entryVars, indexVars, rebuildVars, apiVars, crawlVars, modesVars, refreshVars, h_resp,
                   live, lock_readers, r_read, lock_writer, backup, todo,
                   dumped, avail, disk_primary, hpc, h_latest, h_trie,
                   published>>

\* main.rs:309  let mut write_lock = timer_lock.write().await;
RWriteLock ==
    /\ rpc = "write_lock"
    /\ CanWrite(lock_readers, r_read, lock_writer)
    /\ lock_writer' = TRUE
    /\ rpc' = "replace"
    /\ UNCHANGED <<entryVars, indexVars, rebuildVars, apiVars, crawlVars, modesVars, refreshVars, h_resp,
                   live, lock_readers, r_read, backup, todo, dumped, avail,
                   disk_primary, disk_backup, hpc, h_latest, h_trie, published>>

\* main.rs:310  write_lock.replace(backup): the trie field is taken over.
RReplaceTrie ==
    /\ rpc = "replace"
    /\ live' = [live EXCEPT !.trie = backup.trie]
    /\ rpc' = "replace_date"
    /\ UNCHANGED <<entryVars, indexVars, rebuildVars, apiVars, crawlVars, modesVars, refreshVars, h_resp,
                   lock_readers, r_read, lock_writer, backup, todo, dumped,
                   avail, disk_primary, disk_backup, hpc, h_latest, h_trie,
                   published>>

\* main.rs:310  write_lock.replace(backup): latest_date is taken over.
RReplaceDate ==
    /\ rpc = "replace_date"
    /\ live' = [live EXCEPT !.latest_date = backup.latest_date]
    /\ rpc' = "drop_write"
    /\ UNCHANGED <<entryVars, indexVars, rebuildVars, apiVars, crawlVars, modesVars, refreshVars, h_resp,
                   lock_readers, r_read, lock_writer, backup, todo, dumped,
                   avail, disk_primary, disk_backup, hpc, h_latest, h_trie,
                   published>>

\* main.rs:311  drop(write_lock); the loop goes back to wait for its next tick.
RDropWrite ==
    /\ rpc = "drop_write"
    /\ lock_writer' = FALSE
    /\ rpc' = "tick"
    /\ UNCHANGED <<entryVars, indexVars, rebuildVars, apiVars, crawlVars, modesVars, refreshVars, h_resp,
                   live, lock_readers, r_read, backup, todo, dumped, avail,
                   disk_primary, disk_backup, hpc, h_latest, h_trie, published>>

Handler(h) ==
    \/ HAcquire(h) \/ HReadLatest(h) \/ HSearch(h) \/ HRespond(h)
    \/ HParsePanic(h) \/ HHealth(h)

Refresher ==
    \/ RTick \/ RReadLock \/ RClone \/ RDropRead
    \/ RCrawl \/ RApply \/ RUpdateOk \/ RUpdateErr
    \/ RDumpOpen \/ RDumpWrite \/ RBackup
    \/ RWriteLock \/ RReplaceTrie \/ RReplaceDate \/ RDropWrite

ServeNext ==
    \/ \E h \in Handlers : Handler(h)
    \/ Refresher
    \/ Publish

ServeStart ==
    EntryIdle /\ IndexIdle /\ ServeInit /\ RebuildIdle /\ ApiIdle /\ CrawlIdle
    /\ ModesIdle /\ RefreshIdle

ServeSpec == ServeStart /\ [][ServeNext]_vars

\* C6: while a reader holds the read lock, the index it observes is the index
\* loaded at start-up or the complete result of one finished update; the
\* latest_date a handler read and the trie contents it then searched belong to
\* one and the same such index.
C6_ReadersSeeWholeIndex ==
    /\ \A h \in Handlers :
           /\ hpc[h] \in {"locked", "search", "respond"} => live \in published
           /\ hpc[h] = "search" =>
                  \E idx \in published : idx.latest_date = h_latest[h]
                                         /\ idx = live
           /\ hpc[h] = "respond" => Observed(h) \in published
    /\ r_read => live \in published
    /\ rpc = "drop_read" => backup \in published

\* C6 witness: a handler is about to respond with an index installed by a
\* refresh cycle, while the next cycle's working copy is in the middle of its
\* update: a file applied to it, the update not yet returned.
C6_Witness ==
    \E h \in Handlers :
        /\ hpc[h] = "respond"
        /\ Observed(h) # Load(StartFile)
        /\ rpc = "apply"
        /\ backup # live
        /\ backup \notin published

\* C11: between two swaps the live index is unchanged: only the replace steps
\* of the refresh loop, taken under the write lock with no reader inside,
\* change it; the update works on the private working copy, search and health
\* handlers leave trie and latest_date alone, and a cycle abandoned in its
\* update leaves the live index as it was.
C11_LiveChangesOnlyAtSwap ==
    [][/\ live' # live =>
              /\ rpc \in {"replace", "replace_date"}
              /\ lock_writer
              /\ lock_readers = {}
       /\ rpc' = "panicked" => live' = live]_vars

\* C11 witness: a cycle was abandoned after its update had changed the working
\* copy, the live index is still the one loaded at start-up, and a search and
\* a health request have been answered.
C11_Witness ==
    /\ rpc = "panicked"
    /\ backup.trie # live.trie
    /\ backup.latest_date > live.latest_date
    /\ live = Load(StartFile)
    /\ \E h \in Handlers : h_resp[h].query = "ok"
    /\ \E h \in Handlers : h_resp[h].query = "health"

\* C17: a /search request whose prefix or date parameter cannot be parsed is
\* answered with a response that carries a non-empty error string and empty
\* data; it leaves the index unchanged and the read lock released.
C17_UnparseableQueryAnswered ==
    \A h \in Handlers :
        h_resp[h].query = "unparseable" =>
            /\ h_resp[h].body = "json"
            /\ h_resp[h].error # None
            /\ h_resp[h].count = 0
            /\ h \notin lock_readers
            /\ live \in published

\* C7: the live index is replaced by the working copy only in a cycle whose
\* dump to `path` succeeded; after a failed dump the cycle does not swap.
C7_SwapOnlyAfterGoodDump ==
    rpc \in {"replace_date", "drop_write"} => dumped = "ok"

\* C8: a failed crawl, update or dump never ends the refresh loop: the loop is
\* alive in every state, so a new cycle starts at the next tick.
C8_RefreshLoopSurvives ==
    rpc # "panicked"

\* C9: the refresh loop holds no side of the lock while it updates, dumps or
\* backs up, so a handler can take the read lock at any such moment; its read
\* guard lives only around the clone and its write guard only around the
\* replace.
C9_LockHeldOnlyToCloneAndSwap ==
    /\ rpc \in {"update", "apply", "dump", "dump_write", "backup"} =>
           /\ ~r_read
           /\ ~lock_writer
           /\ CanRead(lock_writer, WriterQueued)
    /\ r_read => rpc \in {"clone", "drop_read"}
    /\ lock_writer => rpc \in {"replace", "replace_date", "drop_write"}

\* C9 witness: a handler took the read lock after the dump had begun and reads
\* the index while the refresh loop is still writing the file.
C9_Witness ==
    /\ rpc = "dump_write"
    /\ backup # live
    /\ \E h \in Handlers : hpc[h] = "search"
    /\ \E h \in Handlers : hpc[h] = "idle" /\ ENABLED HAcquire(h)

\* C10: the file at the target path of a dump is at every moment a complete
\* snapshot, the previous one or the new one, never a partly written one.
C10_TargetFileAlwaysComplete ==
    disk_primary.exists /\ disk_primary.complete

(***************************************************************************)
(* RebuildSpec: the Rebuild command (main.rs, Opts::Rebuild).  Parallel    *)
(* workers parse the snapshot files and send each file's records as one    *)
(* batch over a channel; a single writer thread applies the batches in     *)
(* bulk mode in the order they arrive, then compresses and dumps.          *)
(***************************************************************************)

\* The records of the snapshot file of one day: 4:0/1 is announced every day,
\* 6:/0 on the even days only.
RebuildFile(day) ==
    {[prefix |-> Net(4, <<0>>), max_len |-> 1, asn |-> 1, date |-> day]}
    \cup (IF day % 2 = 0
          THEN {[prefix |-> Net(6, <<>>), max_len |-> 2, asn |-> 1,
                 date |-> day]}
          ELSE {})

\* Every order in which the records of a file can stand in its batch.
BatchOrders(S) ==
    {b \in [1..Cardinality(S) -> S] :
         \A i, j \in 1..Cardinality(S) : b[i] = b[j] => i = j}

RebuildStart ==
    /\ EntryIdle
    /\ IndexIdle
    /\ ServeInit
    /\ ApiIdle
    /\ CrawlIdle
    /\ ModesIdle
    /\ RefreshIdle
    /\ all_files = RebuildDays
    /\ receiver_entries = <<>>
    /\ rb_applied = <<>>
    /\ rb_failed = {}
    /\ pb_pending = {}
    /\ receiver_pb = <<>>
    /\ pb_log = {}
    /\ rb_pc = "recv"
    /\ rb_out = NoFile

\* The days whose batch a worker has sent.
SentDays ==
    pb_pending \cup {receiver_pb[i] : i \in 1..Len(receiver_pb)} \cup pb_log

\* Every worker is through: par_chunks(..).for_each_with has returned and the
\* senders it held are dropped, which closes both channels.
WorkersFinished == all_files = {} /\ pb_pending = {}

\* A worker parses one of the files left and sends its records; send blocks
\* while the channel is full.
WorkerSend ==
    /\ Len(receiver_entries) < MaxQueuedBatches
    /\ \E day \in all_files :
           /\ all_files' = all_files \ {day}
           /\ pb_pending' = pb_pending \cup {day}
           /\ \E roas \in BatchOrders(RebuildFile(day)) :
                  receiver_entries' = Append(receiver_entries, roas)
    /\ UNCHANGED <<entryVars, indexVars, serveVars, apiVars, crawlVars, modesVars, refreshVars, rb_failed, rb_applied, receiver_pb,
                   pb_log, rb_pc, rb_out>>

\* The worker then sends the file's progress message; send blocks while that
\* channel is full.
WorkerSendProgress ==
    /\ Len(receiver_pb) < MaxQueuedProgress
    /\ \E day \in pb_pending :
           /\ pb_pending' = pb_pending \ {day}
           /\ receiver_pb' = Append(receiver_pb, day)
    /\ UNCHANGED <<entryVars, indexVars, serveVars, apiVars, crawlVars, modesVars, refreshVars, rb_failed, all_files,
                   receiver_entries, rb_applied, pb_log, rb_pc, rb_out>>

\* WorkerSkip that gives up the files left when one fails.
WorkerSkipStops ==
    /\ \E day \in all_files :
           /\ all_files' = {}
           /\ rb_failed' = rb_failed \cup {day}
    /\ UNCHANGED <<entryVars, indexVars, serveVars, apiVars, crawlVars, modesVars, refreshVars, receiver_entries,
                   rb_applied, pb_pending, receiver_pb, pb_log, rb_pc, rb_out>>

\* The download or parse of one of the files left fails: the worker sends
\* nothing for it and goes on to the next.
WorkerSkip ==
    /\ \E day \in all_files :
           /\ all_files' = all_files \ {day}
           /\ rb_failed' = rb_failed \cup {day}
    /\ UNCHANGED <<entryVars, indexVars, serveVars, apiVars, crawlVars, modesVars, refreshVars, receiver_entries,
                   rb_applied, pb_pending, receiver_pb, pb_log, rb_pc, rb_out>>

\* The progress thread takes a message off its channel and logs it.
ProgressRecv ==
    /\ receiver_pb # <<>>
    /\ pb_log' = pb_log \cup {Head(receiver_pb)}
    /\ receiver_pb' = Tail(receiver_pb)
    /\ UNCHANGED <<entryVars, indexVars, serveVars, apiVars, crawlVars, modesVars, refreshVars, rb_failed, all_files,
                   receiver_entries, rb_applied, pb_pending, rb_pc, rb_out>>

\* The writer takes the next batch off the channel and applies it.
WriterRecv ==
    /\ rb_pc = "recv"
    /\ receiver_entries # <<>>
    /\ LET entries == Head(receiver_entries)
           idx == ProcessEntries(Index, entries, TRUE)
       IN /\ trie' = idx.trie
          /\ latest_date' = idx.latest_date
          /\ rb_applied' = Append(rb_applied, entries[1].date)
    /\ receiver_entries' = Tail(receiver_entries)
    /\ UNCHANGED <<entryVars, crashed, last, ops, serveVars, apiVars, crawlVars, modesVars, refreshVars, rb_failed, all_files,
                   pb_pending, receiver_pb, pb_log, rb_pc, rb_out>>

\* WriterCompress that leaves the receive loop as soon as it finds the channel
\* empty.
WriterCompressOnEmpty ==
    /\ rb_pc = "recv"
    /\ receiver_entries = <<>>
    /\ IF CompressDatesPanics(trie)
       THEN rb_pc' = "panicked" /\ UNCHANGED trie
       ELSE rb_pc' = "dump" /\ trie' = CompressDatesOf(trie)
    /\ UNCHANGED <<entryVars, latest_date, crashed, last, ops, serveVars, apiVars, crawlVars, modesVars, refreshVars, rb_failed,
                   all_files, receiver_entries, rb_applied, pb_pending,
                   receiver_pb, pb_log, rb_out>>

\* The channel is closed and drained: the writer leaves the loop and
\* compresses.
WriterCompress ==
    /\ rb_pc = "recv"
    /\ receiver_entries = <<>>
    /\ WorkersFinished
    /\ IF CompressDatesPanics(trie)
       THEN rb_pc' = "panicked" /\ UNCHANGED trie
       ELSE rb_pc' = "dump" /\ trie' = CompressDatesOf(trie)
    /\ UNCHANGED <<entryVars, latest_date, crashed, last, ops, serveVars, apiVars, crawlVars, modesVars, refreshVars, rb_failed,
                   all_files, receiver_entries, rb_applied, pb_pending,
                   receiver_pb, pb_log, rb_out>>

\* trie.dump(path).unwrap(), the dump succeeding.
WriterDump ==
    /\ rb_pc = "dump"
    /\ rb_out' = CompleteFile(trie)
    /\ rb_pc' = "done"
    /\ UNCHANGED <<entryVars, indexVars, serveVars, apiVars, crawlVars, modesVars, refreshVars, rb_failed, all_files,
                   receiver_entries, rb_applied, pb_pending, receiver_pb,
                   pb_log>>

\* trie.dump(path).unwrap(), the dump failing part-way.
WriterDumpErr ==
    /\ rb_pc = "dump"
    /\ rb_out' = PartialFile(trie)
    /\ rb_pc' = "panicked"
    /\ UNCHANGED <<entryVars, indexVars, serveVars, apiVars, crawlVars, modesVars, refreshVars, rb_failed, all_files,
                   receiver_entries, rb_applied, pb_pending, receiver_pb,
                   pb_log>>

\* handle.join().unwrap() in the main thread, reached once the workers are
\* through: it returns when the writer has ended, and panics if the writer
\* did.
MainJoin ==
    /\ WorkersFinished
    /\ rb_pc \in {"done", "panicked"}
    /\ rb_pc' = IF rb_pc = "done" THEN "joined" ELSE "join_panicked"
    /\ UNCHANGED <<entryVars, indexVars, serveVars, apiVars, crawlVars, modesVars, refreshVars, rb_failed, all_files,
                   receiver_entries, rb_applied, pb_pending, receiver_pb,
                   pb_log, rb_out>>

RebuildNext ==
    \/ WorkerSend
    \/ WorkerSendProgress
    \/ WorkerSkip
    \/ ProgressRecv
    \/ WriterRecv
    \/ WriterCompress
    \/ WriterDump
    \/ WriterDumpErr
    \/ MainJoin

RebuildSpec == RebuildStart /\ [][RebuildNext]_vars

\* The writer thread, the progress thread and the joining main thread are
\* operating-system threads that run whenever they are not blocked.
RebuildLiveSpec ==
    /\ RebuildStart
    /\ [][RebuildNext]_vars
    /\ WF_vars(ProgressRecv)
    /\ WF_vars(WriterRecv)
    /\ WF_vars(WriterCompress)
    /\ WF_vars(WriterDump \/ WriterDumpErr)
    /\ WF_vars(MainJoin)

\* The days of the batches the writer has applied.
AppliedDays == {rb_applied[i] : i \in 1..Len(rb_applied)}

\* The Rebuild command has ended: the main thread's join has returned.
WriterJoined == rb_pc \in {"joined", "join_panicked"}

\* Once the writer has left its receive loop, the channel is closed and empty
\* and the batches applied are the batches sent, each once.
CompressAfterAllBatches ==
    rb_pc # "recv" =>
        /\ WorkersFinished
        /\ receiver_entries = <<>>
        /\ AppliedDays = SentDays
        /\ Len(rb_applied) = Cardinality(SentDays)

\* C21: the writer compresses and dumps only after every batch a worker sent
\* was received and applied exactly once; until the command has ended some
\* thread can always take a step, however full the two bounded channels are;
\* and once the workers are through, the writer compresses, dumps and is
\* joined (a dump that fails ends the command through the panic the join
\* reports).
C21_WriterDrainsThenCompresses ==
    /\ [](CompressAfterAllBatches)
    /\ [](rb_pc = "joined" => rb_out = CompleteFile(trie))
    /\ [](~WriterJoined => ENABLED RebuildNext)
    /\ (WorkersFinished ~> WriterJoined)

\* C21 witness: the command has ended with every file's batch applied, after
\* the writer found the batch channel full with a worker still to send, and
\* while the progress channel is still full.
C21_Witness ==
    /\ rb_pc = "joined"
    /\ AppliedDays = RebuildDays
    /\ Len(receiver_pb) = MaxQueuedProgress

\* The records of the files of the given days, day by day in calendar order.
RECURSIVE InCalendarOrder(_)
InCalendarOrder(days) ==
    IF days = {} THEN <<>>
    ELSE LET d == CHOOSE x \in days : \A y \in days : x <= y
         IN (CHOOSE b \in BatchOrders(RebuildFile(d)) : TRUE)
            \o InCalendarOrder(days \ {d})

\* The index that applying those files one after the other in calendar order
\* gives.
SequentialBuild(days) == ProcessEntries(NewIndex, InCalendarOrder(days), TRUE)

\* C20: whatever order the workers deliver the batches in and whatever order
\* the records stand in inside a batch, the writer holds the index that the
\* same files give when applied in calendar order, and after compress_dates
\* the compressed form of that index.
C20_RebuildOrderIndependent ==
    /\ rb_pc = "recv" => Index = SequentialBuild(AppliedDays)
    /\ rb_pc \in {"dump", "done"} =>
           /\ trie = CompressDatesOf(SequentialBuild(AppliedDays).trie)
           /\ latest_date = SequentialBuild(AppliedDays).latest_date
    /\ rb_pc = "done" => Load(rb_out).trie = trie

\* C20 witness: every file was applied, the batch of the last day first, and
\* the finished index holds an entry with two runs.
C20_Witness ==
    /\ rb_pc = "done"
    /\ AppliedDays = RebuildDays
    /\ rb_applied[1] = MaxRebuildDay
    /\ \E p \in DOMAIN trie : \E k \in DOMAIN trie[p] :
           Len(trie[p][k].dates_compressed) = 2
    /\ \E p \in DOMAIN trie : \E k \in DOMAIN trie[p] :
           Len(trie[p][k].dates_compressed) = 1

IngestRecords ==
    [prefix : {Net(4, <<>>), Net(4, <<0>>)}, max_len : {1, 2, 257},
     asn : {1}, date : {1, 3}]

GProcessEntries ==
    /\ ~crashed
    /\ ops < MaxIngestOps
    /\ \E r \in IngestRecords, b \in BOOLEAN :
           LET idx == ProcessEntries(Index, <<r>>, b)
           IN /\ trie' = idx.trie
              /\ latest_date' = idx.latest_date
              /\ last' = [op |-> "process_entries", rec |-> r,
                          bootstrap |-> b]
    /\ ops' = ops + 1
    /\ UNCHANGED <<crashed, entryVars, serveVars, rebuildVars, apiVars, crawlVars, modesVars, refreshVars>>

GCompressDates ==
    /\ ~crashed
    /\ ops < MaxIngestOps
    /\ IF CompressDatesPanics(trie)
       THEN crashed' = TRUE /\ UNCHANGED trie
       ELSE trie' = CompressDatesOf(trie) /\ UNCHANGED crashed
    /\ last' = [op |-> "compress_dates", rec |-> <<>>, bootstrap |-> FALSE]
    /\ ops' = ops + 1
    /\ UNCHANGED <<latest_date, entryVars, serveVars, rebuildVars, apiVars, crawlVars, modesVars, refreshVars>>

GFillGaps ==
    /\ ~crashed
    /\ ops < MaxIngestOps
    /\ IF FillGapsPanics(trie)
       THEN crashed' = TRUE /\ UNCHANGED trie
       ELSE trie' = FillGaps(trie) /\ UNCHANGED crashed
    /\ last' = [op |-> "fill_gaps", rec |-> <<>>, bootstrap |-> FALSE]
    /\ ops' = ops + 1
    /\ UNCHANGED <<latest_date, entryVars, serveVars, rebuildVars, apiVars, crawlVars, modesVars, refreshVars>>

IngestNext == GProcessEntries \/ GCompressDates \/ GFillGaps

IngestSpec == Init /\ [][IngestNext]_vars

\* The (prefix, key) pairs of a trie.
EntryPairs(t) == UNION {{<<p, k>> : k \in DOMAIN t[p]} : p \in DOMAIN t}

\* C29: the trie holds a prefix exactly when a key was inserted for it (no
\* prefix with an empty map; a process_entries call adds the record's pair
\* and no other; compress_dates and fill_gaps add and remove none), the map
\* under a prefix has one entry per key, and every entry's max_len and origin
\* are the key it is stored under.
C29_OneEntryPerKeyUnderItsKey ==
    /\ [](\A p \in DOMAIN trie :
              /\ DOMAIN trie[p] # {}
              /\ \A k \in DOMAIN trie[p] :
                     <<trie[p][k].max_len, trie[p][k].origin>> = k)
    /\ [][/\ last'.op = "process_entries" =>
                 \E r \in IngestRecords :
                     EntryPairs(trie') =
                         EntryPairs(trie)
                         \cup {<<r.prefix, <<AsU8(r.max_len), r.asn>> >>}
          /\ last'.op \in {"compress_dates", "fill_gaps"} =>
                 EntryPairs(trie') = EntryPairs(trie)]_vars

\* C29 witness: after a gap fill the index holds two keys under one prefix
\* and a second prefix.
C29_Witness ==
    /\ last.op = "fill_gaps"
    /\ ~crashed
    /\ Cardinality(EntryPairs(trie)) = 3
    /\ Cardinality(DOMAIN trie) = 2

\* C30: no call of the ingest engine removes information: over every
\* process_entries (either mode), compress_dates and fill_gaps step, every
\* (prefix, key) pair stays and every entry keeps every day it held.
C30_IngestNeverRemoves ==
    [][/\ EntryPairs(trie) \subseteq EntryPairs(trie')
       /\ \A p \in DOMAIN trie : \A k \in DOMAIN trie[p] :
              LogicalDates(trie[p][k]) \subseteq LogicalDates(trie'[p][k])]_vars

\* C30 witness: compress_dates has folded loose days into the runs of an
\* index with two entries, one of which covers the day before and the day
\* after the gap.
C30_Witness ==
    /\ last.op = "compress_dates"
    /\ ~crashed
    /\ Cardinality(EntryPairs(trie)) = 2
    /\ \E p \in DOMAIN trie : \E k \in DOMAIN trie[p] :
           /\ trie[p][k].dates = {}
           /\ Len(trie[p][k].dates_compressed) = 2

(***************************************************************************)
(* ApiSpec: the /search handler of the serving layer (api.rs, search) on   *)
(* an index built by process_entries.                                      *)
(***************************************************************************)

\* 2^n
RECURSIVE Pow2(_)
Pow2(n) == IF n = 0 THEN 1 ELSE 2 * Pow2(n - 1)

\* u32 / u8 to_string: the decimal digits, as character codes ('0' is 48).
RECURSIVE DecimalString(_)
DecimalString(n) ==
    IF n < 10 THEN <<48 + n>>
    ELSE Append(DecimalString(n \div 10), 48 + (n % 10))

\* A 16-bit group of an IPv6 address written out: lower-case hexadecimal
\* digits without leading zeros ('a' is 97).
RECURSIVE HexString(_)
HexString(n) ==
    LET d == n % 16
        c == IF d < 10 THEN 48 + d ELSE 97 + (d - 10)
    IN IF n < 16 THEN <<c>> ELSE Append(HexString(n \div 16), c)

\* The leading part of the address of a network, host bits zero: the first
\* octet of an IPv4 address, the first 16-bit group of an IPv6 address.  The
\* networks of the model are no longer than that, so the rest is zero.
AddrHead(p) ==
    BitsToInt(p.bits) * Pow2((IF p.fam = 4 THEN 8 ELSE 16) - Len(p.bits))

\* IpNet::to_string: "a.0.0.0/len" for IPv4, "::/len" or "hhhh::/len" for
\* IPv6 ('.' is 46, '/' is 47, ':' is 58).
NetToString(p) ==
    IF p.fam = 4
    THEN DecimalString(AddrHead(p)) \o <<46, 48, 46, 48, 46, 48, 47>>
         \o DecimalString(Len(p.bits))
    ELSE (IF AddrHead(p) = 0 THEN <<>> ELSE HexString(AddrHead(p)))
         \o <<58, 58, 47>> \o DecimalString(Len(p.bits))

\* Ord of IpNet (derived): IPv4 before IPv6, then by address, then by prefix
\* length.
IpNetLess(p, q) ==
    \/ p.fam < q.fam
    \/ /\ p.fam = q.fam
       /\ \/ AddrHead(p) < AddrHead(q)
          \/ AddrHead(p) = AddrHead(q) /\ Len(p.bits) < Len(q.bits)

\* results.sort_by(|a, b| a.prefix.cmp(&b.prefix)): stable.
RECURSIVE InsertByPrefix(_, _)
InsertByPrefix(x, s) ==
    IF s = <<>> THEN <<x>>
    ELSE IF IpNetLess(x.prefix, Head(s).prefix) THEN <<x>> \o s
    ELSE <<Head(s)>> \o InsertByPrefix(x, Tail(s))

RECURSIVE SortByPrefix(_)
SortByPrefix(results) ==
    IF results = <<>> THEN <<>>
    ELSE InsertByPrefix(results[Len(results)],
                        SortByPrefix(SubSeq(results, 1, Len(results) - 1)))

\* RoasSearchResultEntry whose current flag asks for a run that ends after
\* latest_date.
ResultEntryEndsAfter(found, latest_ts) ==
    [prefix |-> NetToString(found.prefix),
     max_len |-> found.max_len,
     asn |-> found.origin,
     date_ranges |-> found.dates_ranges,
     current |-> \E i \in 1..Len(found.dates_ranges) :
                     DateTs(found.dates_ranges[i][2]) > latest_ts]

\* RoasSearchResultEntry built from a RoasLookupEntry (api.rs:101-116); a
\* calendar day of date_ranges stands for its ISO string.
ResultEntry(found, latest_ts) ==
    [prefix |-> NetToString(found.prefix),
     max_len |-> found.max_len,
     asn |-> found.origin,
     date_ranges |-> found.dates_ranges,
     current |-> \E i \in 1..Len(found.dates_ranges) :
                     DateTs(found.dates_ranges[i][2]) >= latest_ts]

\* The sorted result of a query as response entries (api.rs:91-117).
ResultEntries(idx, query) ==
    LET results == SortByPrefix(Search(idx, query.prefix, query.asn,
                                       query.max_len, query.date,
                                       query.current))
    IN [i \in 1..Len(results) |-> ResultEntry(results[i], idx.latest_date)]

\* page and page_size as the handler uses them (api.rs:80-85).
PageOf(query) == IF query.page = None THEN 0 ELSE query.page[1]
PageSizeOf(query) ==
    LET page_size == IF query.page_size = None THEN 100
                     ELSE query.page_size[1]
    IN IF page_size > 1000 THEN 1000 ELSE page_size

\* .skip(n).take(m)
SkipTake(s, n, m) ==
    IF n >= Len(s) THEN <<>>
    ELSE SubSeq(s, n + 1, IF n + m > Len(s) THEN Len(s) ELSE n + m)

\* Json(RoasSearchResult { .. }) with the page cut at `skip` (api.rs:119-134).
JsonResponse(idx, query, skip) ==
    LET data == SkipTake(ResultEntries(idx, query), skip, PageSizeOf(query))
    IN [status |-> "json", count |-> Len(data), error |-> None,
        data |-> data, latest_date |-> TsDate(idx.latest_date),
        page |-> PageOf(query), page_size |-> PageSizeOf(query)]

\* What the handler can answer.  `page * page_size` is a usize product: when
\* it overflows, a build with overflow checks panics and the task ends
\* without a response, a build without them goes on with the wrapped product.
SearchHandler(idx, query) ==
    LET product == PageOf(query) * PageSizeOf(query)
    IN IF product >= Pow2(UsizeBits)
       THEN {[status |-> "panic"],
             JsonResponse(idx, query, product % Pow2(UsizeBits))}
       ELSE {JsonResponse(idx, query, product)}

\* The records the index of ApiSpec is built from: 64.0.0.0/2, 128.0.0.0/1
\* and ::/0.
ApiRecords ==
    [prefix : {Net(4, <<0, 1>>), Net(4, <<1>>), Net(6, <<>>)}, max_len : {2},
     asn : {1}, date : ApiDays]

\* The queries asked: page and page_size over the small values, the default,
\* a page_size above the cap, and a page whose product with 2 passes the
\* largest usize.
ApiQueries ==
    [asn : {None}, prefix : {None}, max_len : {None}, date : {None},
     current : {None, Some(TRUE), Some(FALSE)},
     page : {None, Some(1), Some(Pow2(UsizeBits - 1))},
     page_size : {None, Some(0), Some(1), Some(2), Some(1001)}]

AProcessEntries ==
    /\ api_resp.status = "none"
    /\ ops < MaxApiOps
    /\ \E r \in ApiRecords, b \in BOOLEAN :
           LET idx == ProcessEntries(Index, <<r>>, b)
           IN /\ trie' = idx.trie
              /\ latest_date' = idx.latest_date
              /\ last' = [op |-> "process_entries", rec |-> <<>>,
                          bootstrap |-> b]
    /\ ops' = ops + 1
    /\ UNCHANGED <<crashed, entryVars, serveVars, rebuildVars, apiVars, crawlVars, modesVars, refreshVars>>

\* One GET /search, handled while the index stays as it is (the handler holds
\* the read lock from its first read of the index to its response).
ASearch ==
    /\ api_resp.status = "none"
    /\ \E query \in ApiQueries :
           /\ api_query' = query
           /\ api_resp' \in SearchHandler(Index, query)
    /\ UNCHANGED <<entryVars, indexVars, serveVars, rebuildVars, crawlVars, modesVars, refreshVars>>

ApiNext == AProcessEntries \/ ASearch

ApiSpec == Init /\ [][ApiNext]_vars

\* C26: in a /search response an entry is flagged current exactly when one of
\* the runs of the stored entry ends at or after the latest_date of the index
\* the request read; so what current=true returns is all flagged current and
\* what current=false returns is all flagged not current.
C26_CurrentFlagMeansRunReachesLatest ==
    api_resp.status = "json" =>
        /\ \A i \in 1..Len(api_resp.data) :
               LET d == api_resp.data[i]
               IN \E p \in DOMAIN trie :
                      /\ NetToString(p) = d.prefix
                      /\ <<d.max_len, d.asn>> \in DOMAIN trie[p]
                      /\ d.current <=>
                             \E r \in RunSet(trie[p][<<d.max_len, d.asn>>]) :
                                 r[2] >= latest_date
        /\ api_query.current = Some(TRUE) =>
               \A i \in 1..Len(api_resp.data) : api_resp.data[i].current
        /\ api_query.current = Some(FALSE) =>
               \A i \in 1..Len(api_resp.data) : ~api_resp.data[i].current

\* C26 witness: current=true returned two entries of an index of three, the
\* third having stopped a day before latest_date.
C26_Witness ==
    /\ api_resp.status = "json"
    /\ api_query.current = Some(TRUE)
    /\ Len(api_resp.data) = 2
    /\ Cardinality(DOMAIN trie) = 3
    /\ \E p \in DOMAIN trie : \E k \in DOMAIN trie[p] :
           /\ trie[p][k].dates_compressed # <<>>
           /\ \A r \in RunSet(trie[p][k]) : r[2] < latest_date

\* Lexicographic order of two strings.
RECURSIVE StrLess(_, _)
StrLess(a, b) ==
    IF b = <<>> THEN FALSE
    ELSE IF a = <<>> THEN TRUE
    ELSE IF Head(a) # Head(b) THEN Head(a) < Head(b)
    ELSE StrLess(Tail(a), Tail(b))

\* C27: the data of a /search response is in ascending lexicographic order of
\* the entries' prefix strings.
C27_DataOrderedByPrefixString ==
    api_resp.status = "json" =>
        \A i, j \in 1..Len(api_resp.data) :
            i < j => ~StrLess(api_resp.data[j].prefix, api_resp.data[i].prefix)

\* C28: the response uses page_size' = min(page_size or 100, 1000) and its
\* data is the part of the sorted result at the positions from
\* page * page_size' up to, not including, page * page_size' + page_size':
\* empty when page * page_size' is at least the number of results; count is
\* the length of data.
C28_DataIsTheRequestedPage ==
    api_resp.status # "none" =>
        LET all == ResultEntries(Index, api_query)
            size == PageSizeOf(api_query)
            from == PageOf(api_query) * size
        IN /\ api_resp.status = "json"
           /\ api_resp.page_size = size
           /\ api_resp.count = Len(api_resp.data)
           /\ api_resp.data =
                  [i \in 1..(IF from >= Len(all) THEN 0
                             ELSE IF from + size > Len(all)
                                  THEN Len(all) - from ELSE size) |->
                      all[from + i]]

\* ---------------------------------------------------------------------------
\* CrawlSpec: crawl_tal_after, one call over an upstream directory tree.
\* A date is <<year, month, day>>; NaiveDate orders dates as these triples.
\* ---------------------------------------------------------------------------

\* Days 1..MaxCrawlDay of each month can have a snapshot file.
MaxCrawlDay == 2

CrawlYearNames == {2022, 2023}
CrawlMonthNames == {1, 2}
CrawlDates == CrawlYearNames \X CrawlMonthNames \X (1..MaxCrawlDay)

\* The values `after` can take: any day of the window, listed or not.
CrawlCutoffs == CrawlYearNames \X CrawlMonthNames \X (1..(MaxCrawlDay + 1))

from_ymd_opt(y, m, d) == <<y, m, d>>

\* a < b for two NaiveDate values.
NaiveDateLess(a, b) ==
    \/ a[1] < b[1]
    \/ a[1] = b[1] /\ a[2] < b[2]
    \/ a[1] = b[1] /\ a[2] = b[2] /\ a[3] < b[3]

\* The names an index page lists, in the order of the page: ascending.
RECURSIVE IndexPage(_)
IndexPage(S) ==
    IF S = {} THEN <<>>
    ELSE LET x == CHOOSE y \in S : \A z \in S : y <= z
         IN <<x>> \o IndexPage(S \ {x})

\* __crawl_years: the year directories of the TAL.
crawl_years(listed) == IndexPage({d[1] : d \in listed})

\* __crawl_months_days on a year directory and on a month directory.
crawl_months(listed, year) == IndexPage({d[2] : d \in {x \in listed : x[1] = year}})
crawl_days(listed, year, month) ==
    IndexPage({d[3] : d \in {x \in listed : x[1] = year /\ x[2] = month}})

\* flat_map(|x| x).collect(): the vectors one after another, in order.
RECURSIVE FlatMap(_)
FlatMap(vs) == IF vs = <<>> THEN <<>> ELSE Head(vs) \o FlatMap(Tail(vs))

\* The year filter of crawl_tal_after.
YearKept(y, after_date) ==
    ~NaiveDateLess(from_ymd_opt(y, 1, 1), from_ymd_opt(after_date[1], 1, 1))

\* A month filter that compares the month numbers only.
MonthKeptByNumber(year, m, after_date) == m >= after_date[2]

\* The month filter of crawl_tal_after.
MonthKept(year, m, after_date) ==
    ~NaiveDateLess(from_ymd_opt(year, m, 1),
                   from_ymd_opt(after_date[1], after_date[2], 1))

\* The day filter of crawl_tal_after.
DayKept(year, month, d, after_date) ==
    NaiveDateLess(after_date, from_ymd_opt(year, month, d))

\* crawl_tal_after(tal_url, after): the file_date of each RoaFile returned.
crawl_tal_after(listed, after) ==
    LET min_date == from_ymd_opt(1000, 1, 1)
        after_date == IF after = None THEN min_date ELSE after[1]
        years == SelectSeq(crawl_years(listed),
                           LAMBDA y : YearKept(y, after_date))
        OfMonth(year, month) ==
            LET days == SelectSeq(crawl_days(listed, year, month),
                                  LAMBDA d : DayKept(year, month, d, after_date))
            IN [i \in 1..Len(days) |-> from_ymd_opt(year, month, days[i])]
        OfYear(year) ==
            LET months == SelectSeq(crawl_months(listed, year),
                                    LAMBDA m : MonthKept(year, m, after_date))
            IN FlatMap([i \in 1..Len(months) |-> OfMonth(year, months[i])])
    IN FlatMap([i \in 1..Len(years) |-> OfYear(years[i])])

\* Any upstream tree and any cutoff, before the call.
CrawlStart ==
    /\ EntryIdle /\ IndexIdle /\ ServeInit /\ RebuildIdle /\ ApiIdle
    /\ ModesIdle
    /\ RefreshIdle
    /\ cr_listed \in SUBSET CrawlDates
    /\ cr_after \in {None} \cup {Some(d) : d \in CrawlCutoffs}
    /\ cr_out = <<"not called">>

\* The call of crawl_tal_after.
CCrawl ==
    /\ cr_out = <<"not called">>
    /\ cr_out' = crawl_tal_after(cr_listed, cr_after)
    /\ UNCHANGED <<cr_listed, cr_after>>
    /\ UNCHANGED <<entryVars, indexVars, serveVars, rebuildVars, apiVars,
                   modesVars, refreshVars>>

CrawlNext == CCrawl

CrawlSpec == CrawlStart /\ [][CrawlNext]_vars

\* The listed days strictly later than the cutoff.
ListedAfter == {d \in cr_listed : NaiveDateLess(cr_after[1], d)}

\* C31: crawl_tal_after(tal, Some(after)) returns exactly the listed files
\* whose file_date is strictly later than after, each once: none on or before
\* after, none dropped by the year and month filters; the earliest of them is
\* the first element.
C31_CrawlReturnsExactlyTheLaterFiles ==
    (cr_out # <<"not called">> /\ cr_after # None) =>
        /\ {cr_out[i] : i \in 1..Len(cr_out)} = ListedAfter
        /\ Len(cr_out) = Cardinality(ListedAfter)
        /\ cr_out # <<>> =>
               \A d \in ListedAfter : ~NaiveDateLess(d, cr_out[1])

\* C31 witness: the cutoff is the last day of a year's second month that has
\* later and earlier files; files of the first month of the next year are
\* returned, the first element being the earliest.
C31_Witness ==
    /\ cr_after = Some(<<2022, 2, MaxCrawlDay>>)
    /\ <<2022, 1, 1>> \in cr_listed
    /\ <<2022, 2, MaxCrawlDay>> \in cr_listed
    /\ Len(cr_out) = 2
    /\ cr_out[1] = <<2023, 1, 1>>
    /\ cr_out[2] = <<2023, 2, 1>>

\* C33: fill_gaps completes without failure on every index that ingest can
\* build, entries with an empty run list and a non-empty loose set (bulk mode,
\* not yet compressed) and entries with exactly one run included.
C33_FillGapsCompletes ==
    last.op = "fill_gaps" => ~crashed

\* C36: process_entries stores each record under the key whose max_len is the
\* record's max_len, in an entry of that max_len, so records of one prefix and
\* origin with different max_len are never folded into one entry.
C36_KeyKeepsRecordMaxLen ==
    last.op = "process_entries" =>
        LET r == last.rec
        IN /\ r.prefix \in DOMAIN trie
           /\ <<r.max_len, r.asn>> \in DOMAIN trie[r.prefix]
           /\ trie[r.prefix][<<r.max_len, r.asn>>].max_len = r.max_len

\* C34: in every state, compressed or not, validate(p, o, d) is Valid exactly
\* when search(prefix = p, origin = o, date = d), with no max_len and no
\* current, returns at least one entry whose max_len is at least prefix_len(p).
C34_ValidateAgreesWithSearch ==
    \A p \in QueryPrefixes : \A o \in QueryOrigins : \A d \in IndexDays :
        (Validate(trie, p, o, DateTs(d)) = "Valid")
        <=> LET found == Search(Index, Some(p), Some(o), None, Some(d), None)
            IN \E i \in 1..Len(found) : found[i].max_len >= PrefixLen(p)

\* C39: for every prefix, origin and max_len filter, the results of
\* search(current = true) and of search(current = false) have no entry in
\* common, and together they are the results of the search with neither
\* current nor date, each entry once.
C39_CurrentPartitionsResults ==
    \A prefix \in SearchPrefixArgs, origin \in SearchOriginArgs,
       max_len \in SearchMaxLenArgs :
        LET cur == Search(Index, prefix, origin, max_len, None, Some(TRUE))
            exp == Search(Index, prefix, origin, max_len, None, Some(FALSE))
            all == Search(Index, prefix, origin, max_len, None, None)
        IN /\ ResultKeys(cur) \cap ResultKeys(exp) = {}
           /\ ResultKeys(cur) \cup ResultKeys(exp) = ResultKeys(all)
           /\ Len(cur) + Len(exp) = Len(all)

\* C39 witness: a search without filters finds two entries, one of them
\* current and the other expired.
C39_Witness ==
    /\ Len(Search(Index, None, None, None, None, None)) = 2
    /\ Len(Search(Index, None, None, None, None, Some(TRUE))) = 1
    /\ Len(Search(Index, None, None, None, None, Some(FALSE))) = 1
    /\ \A p \in DOMAIN trie : \A k \in DOMAIN trie[p] :
           trie[p][k].dates_compressed # <<>>

\* ---------------------------------------------------------------------------
\* ModesSpec: the records of one batch ingested into an empty index twice,
\* incrementally in calendar order (serve mode: process_entries(.., false))
\* and in bulk in the order given (rebuild: process_entries(.., true), then
\* compress_dates).
\* ---------------------------------------------------------------------------

\* Record dates are days 0..MaxModesDay; a batch has up to MaxModesLen records.
MaxModesDay == 3
MaxModesLen == 3

ModesRecords ==
    [prefix : {Net(4, <<>>)}, max_len : {1}, asn : {1, 2},
     date : 0..MaxModesDay]

\* The sequences over S of length n.
SeqsOfLen(S, n) == [1..n -> S]

\* The orders (permutations of the positions) in which the dates of a batch
\* never decrease.
CalendarOrders(batch) ==
    {f \in [1..Len(batch) -> 1..Len(batch)] :
        /\ \A i, j \in 1..Len(batch) : i # j => f[i] # f[j]
        /\ \A i \in 1..(Len(batch) - 1) :
               batch[f[i]].date <= batch[f[i + 1]].date}

ModesStart ==
    /\ EntryIdle /\ IndexIdle /\ ServeInit /\ RebuildIdle /\ ApiIdle
    /\ CrawlIdle
    /\ RefreshIdle
    /\ in_batch \in UNION {SeqsOfLen(ModesRecords, n) : n \in 0..MaxModesLen}
    /\ inc_index = NewIndex
    /\ inc_done = FALSE
    /\ bulk_index = NewIndex
    /\ bulk_pc = "start"

\* Incremental ingest of the batch, day after day.
MIncremental ==
    /\ bulk_pc # "idle"
    /\ ~inc_done
    /\ \E f \in CalendarOrders(in_batch) :
           inc_index' = ProcessEntries(
               NewIndex, [i \in 1..Len(in_batch) |-> in_batch[f[i]]], FALSE)
    /\ inc_done' = TRUE
    /\ UNCHANGED <<in_batch, bulk_index, bulk_pc>>
    /\ UNCHANGED <<entryVars, indexVars, serveVars, rebuildVars, apiVars,
                   crawlVars, refreshVars>>

\* Bulk ingest of the batch in the order given.
MBulk ==
    /\ bulk_pc = "start"
    /\ bulk_index' = ProcessEntries(NewIndex, in_batch, TRUE)
    /\ bulk_pc' = "ingested"
    /\ UNCHANGED <<in_batch, inc_index, inc_done>>
    /\ UNCHANGED <<entryVars, indexVars, serveVars, rebuildVars, apiVars,
                   crawlVars, refreshVars>>

\* compress_dates on the bulk index.
MCompressDates ==
    /\ bulk_pc = "ingested"
    /\ ~CompressDatesPanics(bulk_index.trie)
    /\ bulk_index' = [bulk_index EXCEPT !.trie = CompressDatesOf(@)]
    /\ bulk_pc' = "compressed"
    /\ UNCHANGED <<in_batch, inc_index, inc_done>>
    /\ UNCHANGED <<entryVars, indexVars, serveVars, rebuildVars, apiVars,
                   crawlVars, refreshVars>>

ModesNext == MIncremental \/ MBulk \/ MCompressDates

ModesSpec == ModesStart /\ [][ModesNext]_vars

\* The days of the batch's records for one network and key.
BatchDays(prefix, key) ==
    {DateTs(in_batch[i].date) :
        i \in {j \in 1..Len(in_batch) :
                  /\ in_batch[j].prefix = prefix
                  /\ <<in_batch[j].max_len, in_batch[j].asn>> = key}}

\* C37: a batch ingested incrementally in non-decreasing date order into an
\* empty index, and the same batch ingested in bulk in any order and followed
\* by compress_dates, give the same entries with the same run lists and the
\* same latest_date, and every date of the batch is in its entry.
C37_IncrementalEqualsBulkThenCompress ==
    (inc_done /\ bulk_pc = "compressed") =>
        /\ inc_index.trie = bulk_index.trie
        /\ inc_index.latest_date = bulk_index.latest_date
        /\ \A i \in 1..Len(in_batch) :
               /\ in_batch[i].prefix \in DOMAIN inc_index.trie
               /\ <<in_batch[i].max_len, in_batch[i].asn>>
                      \in DOMAIN inc_index.trie[in_batch[i].prefix]
        /\ \A p \in DOMAIN inc_index.trie : \A k \in DOMAIN inc_index.trie[p] :
               LogicalDates(inc_index.trie[p][k]) = BatchDays(p, k)

\* C37 witness: a batch of one entry that is not in calendar order and leaves
\* a hole, ingested both ways, gave the entry two runs.
C37_Witness ==
    /\ inc_done
    /\ bulk_pc = "compressed"
    /\ Len(in_batch) = MaxModesLen
    /\ in_batch[1].date > in_batch[2].date
    /\ \E p \in DOMAIN bulk_index.trie : \E k \in DOMAIN bulk_index.trie[p] :
           /\ Len(bulk_index.trie[p][k].dates_compressed) = 2
           /\ Cardinality(BatchDays(p, k)) = 3

\* ---------------------------------------------------------------------------
\* GapsSpec: the index fed with records of early February 2022, where the
\* table has the gaps 2022-02-02 and 2022-02-04 two days apart, and then
\* maintained with compress_dates and fill_gaps.
\* ---------------------------------------------------------------------------

\* Record dates are the days FirstGapsDay..(FirstGapsDay + MaxGapsSpan), from
\* 2022-02-01 on; MaxGapsOps calls are made.
FirstGapsDay == 31
MaxGapsSpan == 4
MaxGapsOps == 4

GapsRecords ==
    [prefix : {Net(4, <<>>)}, max_len : {1}, asn : {1, 2},
     date : FirstGapsDay..(FirstGapsDay + MaxGapsSpan)]

KProcessEntries ==
    /\ ~crashed
    /\ ops < MaxGapsOps
    /\ \E r \in GapsRecords, b \in BOOLEAN :
           LET idx == ProcessEntries(Index, <<r>>, b)
           IN /\ trie' = idx.trie
              /\ latest_date' = idx.latest_date
              /\ last' = [op |-> "process_entries", rec |-> <<>>,
                          bootstrap |-> b]
    /\ ops' = ops + 1
    /\ UNCHANGED <<crashed, entryVars, serveVars, rebuildVars, apiVars,
                   crawlVars, modesVars, refreshVars>>

KCompressDates ==
    /\ ~crashed
    /\ ops < MaxGapsOps
    /\ IF CompressDatesPanics(trie)
       THEN crashed' = TRUE /\ UNCHANGED trie
       ELSE trie' = CompressDatesOf(trie) /\ UNCHANGED crashed
    /\ last' = [op |-> "compress_dates", rec |-> <<>>, bootstrap |-> FALSE]
    /\ ops' = ops + 1
    /\ UNCHANGED <<latest_date, entryVars, serveVars, rebuildVars, apiVars,
                   crawlVars, modesVars, refreshVars>>

KFillGaps ==
    /\ ~crashed
    /\ ops < MaxGapsOps
    /\ IF FillGapsPanics(trie)
       THEN crashed' = TRUE /\ UNCHANGED trie
       ELSE trie' = FillGaps(trie) /\ UNCHANGED crashed
    /\ last' = [op |-> "fill_gaps", rec |-> <<>>, bootstrap |-> FALSE]
    /\ ops' = ops + 1
    /\ UNCHANGED <<latest_date, entryVars, serveVars, rebuildVars, apiVars,
                   crawlVars, modesVars, refreshVars>>

GapsNext == KProcessEntries \/ KCompressDates \/ KFillGaps

GapsSpec == Init /\ [][GapsNext]_vars

\* C38: one fill_gaps pass over an index in which every entry is fully
\* compressed leaves no entry with two neighbouring runs that end the day
\* before a known gap and start the day after it, whatever the number of gaps
\* the entry straddled before the pass.
C38_NoStraddleLeftAfterFillGaps ==
    [][(AllCanonical(trie) /\ last'.op = "fill_gaps") =>
          /\ ~crashed'
          /\ \A g \in 1..Len(KNOWN_GAPS_STR) :
             \A p \in DOMAIN trie' : \A k \in DOMAIN trie'[p] :
                 StraddlingRuns(trie'[p][k], KNOWN_GAPS_STR[g]) = {}]_vars

\* C38 witness: three records and one fill_gaps pass left an entry with the
\* single run 2022-02-01..2022-02-05: the entry straddled the gaps 2022-02-02
\* and 2022-02-04 at once and the pass closed both.
C38_Witness ==
    /\ last.op = "fill_gaps"
    /\ ~crashed
    /\ ops = 4
    /\ \E p \in DOMAIN trie : \E k \in DOMAIN trie[p] :
           trie[p][k].dates_compressed =
               << <<DateTs(FirstGapsDay), DateTs(FirstGapsDay + 4)>> >>

\* C35: a file that reaches the backup destination is the output of a dump
\* that succeeded in the same cycle: whenever the copy (or upload) changes the
\* destination, this cycle's dump returned Ok and the file copied is the
\* complete snapshot of the working copy; nothing is copied from the primary
\* path after a failed or partial dump.
C35_BackupOnlyOfGoodDump ==
    [][(rpc = "backup" /\ disk_backup' # disk_backup) =>
          /\ dumped = "ok"
          /\ disk_backup' = CompleteFile(backup.trie)]_vars

\* The (network, key, day) facts of an index.
Facts(idx) ==
    UNION {{<<c[1], c[2], d>> : d \in LogicalDates(idx.trie[c[1]][c[2]])} :
              c \in EntryPairs(idx.trie)}

\* C40: in serve mode the latest_date of the live index never decreases, and
\* every step that changes the live index (the swap) leaves it with a
\* latest_date at least the replaced one and with every (network, key, day)
\* fact the replaced index held.
C40_LiveIndexOnlyGrows ==
    [][live' # live =>
          /\ live'.latest_date >= live.latest_date
          /\ Facts(live) \subseteq Facts(live')]_vars

\* C40 witness: two swaps are done and the live index, loaded with one day,
\* holds three days and the latest_date of the third.
C40_Witness ==
    /\ rpc = "drop_write"
    /\ live.latest_date = DateTs(2)
    /\ Cardinality(Facts(live)) = 3
    /\ Cardinality(published) = 3

\* ---------------------------------------------------------------------------
\* RefreshSpec: the refresh loop of serve mode over the snapshot files of
\* several TALs, each TAL publishing its files day after day at its own pace.
\* No crawl, parse or dump fails, and the loop keeps running.
\* ---------------------------------------------------------------------------

\* The TALs publish the days 1..MaxRefreshDay; day 0 of each is in the index
\* the server starts with.
MaxRefreshDay == 2

Tals == {"arin", "ripencc"}

\* The network of the one ROA each TAL publishes.
TalPrefix(tal) == IF tal = "arin" THEN Net(4, <<0>>) ELSE Net(4, <<1>>)

\* The records of the roas.csv of one TAL for one day.
TalFile(f) ==
    << [prefix |-> TalPrefix(f[1]), max_len |-> 1, asn |-> 1, date |-> f[2]] >>

\* The files in ascending order of file_date.
RECURSIVE ByFileDate(_)
ByFileDate(files) ==
    IF files = {} THEN <<>>
    ELSE LET f == CHOOSE x \in files : \A y \in files : x[2] <= y[2]
         IN <<f>> \o ByFileDate(files \ {f})

\* The crawl of every TAL for the files with file_date > latest_date.
CrawlTalsAfter(idx, files) ==
    ByFileDate({f \in files : DateTs(f[2]) > idx.latest_date})

RefreshStart ==
    /\ EntryIdle /\ IndexIdle /\ ServeInit /\ RebuildIdle /\ ApiIdle
    /\ CrawlIdle /\ ModesIdle
    /\ up_files = {<<tal, 0>> : tal \in Tals}
    /\ rf_live = ProcessEntries(
                     NewIndex,
                     TalFile(<<"arin", 0>>) \o TalFile(<<"ripencc", 0>>), FALSE)
    /\ rf_backup = NewIndex
    /\ rf_todo = <<>>
    /\ rf_pc = "tick"

\* A TAL publishes the snapshot file of its next day.
FPublish(tal) ==
    /\ \E day \in 1..MaxRefreshDay :
           /\ <<tal, day - 1>> \in up_files
           /\ <<tal, day>> \notin up_files
           /\ up_files' = up_files \cup {<<tal, day>>}
    /\ UNCHANGED <<rf_live, rf_backup, rf_todo, rf_pc>>
    /\ UNCHANGED <<entryVars, indexVars, serveVars, rebuildVars, apiVars,
                   crawlVars, modesVars>>

\* main.rs:257-263  the tick; the live index is cloned under the read lock.
FClone ==
    /\ rf_pc = "tick"
    /\ rf_backup' = rf_live
    /\ rf_pc' = "update"
    /\ UNCHANGED <<up_files, rf_live, rf_todo>>
    /\ UNCHANGED <<entryVars, indexVars, serveVars, rebuildVars, apiVars,
                   crawlVars, modesVars>>

\* main.rs:264  backup.update(None, None): the crawl.
FCrawl ==
    /\ rf_pc = "update"
    /\ rf_todo' = CrawlTalsAfter(rf_backup, up_files)
    /\ rf_pc' = "apply"
    /\ UNCHANGED <<up_files, rf_live, rf_backup>>
    /\ UNCHANGED <<entryVars, indexVars, serveVars, rebuildVars, apiVars,
                   crawlVars, modesVars>>

\* main.rs:264  backup.update(None, None): the next file is applied.
FApply ==
    /\ rf_pc = "apply"
    /\ rf_todo # <<>>
    /\ rf_backup' = ProcessEntries(rf_backup, TalFile(Head(rf_todo)), FALSE)
    /\ rf_todo' = Tail(rf_todo)
    /\ UNCHANGED <<up_files, rf_live, rf_pc>>
    /\ UNCHANGED <<entryVars, indexVars, serveVars, rebuildVars, apiVars,
                   crawlVars, modesVars>>

\* main.rs:266-311  update returned; the working copy is dumped and replaces
\* the live index under the write lock; the loop waits for its next tick.
FSwap ==
    /\ rf_pc = "apply"
    /\ rf_todo = <<>>
    /\ rf_live' = rf_backup
    /\ rf_pc' = "tick"
    /\ UNCHANGED <<up_files, rf_backup, rf_todo>>
    /\ UNCHANGED <<entryVars, indexVars, serveVars, rebuildVars, apiVars,
                   crawlVars, modesVars>>

RefreshNext ==
    \/ \E tal \in Tals : FPublish(tal)
    \/ FClone \/ FCrawl \/ FApply \/ FSwap

\* The interval keeps ticking and every step of a cycle is taken.
RefreshSpec ==
    /\ RefreshStart
    /\ [][RefreshNext]_vars
    /\ WF_vars(FClone) /\ WF_vars(FCrawl) /\ WF_vars(FApply) /\ WF_vars(FSwap)

\* C32: every snapshot file that is published upstream is eventually folded
\* into the live index by some refresh cycle, also the file of a TAL for a day
\* that another TAL's file already ingested has reached or passed.
C32_EveryPublishedFileReachesLive ==
    \A tal \in Tals : \A day \in 0..MaxRefreshDay :
        (<<tal, day>> \in up_files)
            ~> (<<TalPrefix(tal), <<1, 1>>, DateTs(day)>> \in Facts(rf_live))

====
